---- MODULE Spec2Model ----
(***************************************************************************)
(* Model of the execution-witness-sentry relayer pipeline:                 *)
(*   - ProofService (service/proof.rs): the message loop                   *)
(*     (handle_request_proof, handle_block_data_ready, request_proof,      *)
(*     cleanup_stale_entries) and the concurrently running proof_webhook   *)
(*     handlers;                                                           *)
(*   - ElDataService (service/el_data.rs): handle_fetch_data, the spawned  *)
(*     fetch_el_data tasks and the join of finished tasks;                 *)
(*   - the shared EL-data LRU, the proof LRU and BlockStorage              *)
(*     (service.rs, storage.rs).                                           *)
(* Payload bytes (block, witness, proof data) do not influence control     *)
(* flow and are left out of the records; slot and block_root are kept in   *)
(* the PendingRequest only.                                                *)
(* Writes to disk may fail (save_el_data, save_proof); reads of files that *)
(* exist are taken to succeed.                                             *)
(*   - Target::union, BackfillService (service/backfill.rs), the lock      *)
(*     operations of the ProofService tasks and the cancellation of the    *)
(*     shutdown token in the run loops have sections of their own, and so  *)
(*     have the reconnect loops of ClEventService and ElEventService       *)
(*     (service/cl_event.rs, service/el_event.rs) and post_webhook of the  *)
(*     proof engine (zkboost/server/src/proof_service.rs).                 *)
(***************************************************************************)
EXTENDS Integers, Sequences, FiniteSets, TLC

\* ---------------------------------------------------------------- bounds
MaxNow == 600          \* the clock stops advancing here
TimeStep == 300        \* seconds added by one Tick
MaxGen == 2            \* proof-engine jobs accepted over a run
MaxDeliveries == 2     \* webhook deliveries over a run
MaxRequests == 2       \* RequestProof messages sent over a run
MaxFetchData == 3      \* FetchData messages handled over a run
NumWebhooks == 2       \* webhook handlers that can run concurrently
ChannelCap == 1        \* capacity of the ProofService channel in the model
ElCacheCap == 1        \* capacity of the EL-data LRU in the model
Retain == 1            \* retention limit of BlockStorage, when configured
NumEndpoints == 2      \* configured EL endpoints (el_clients)
MaxRetain == 3         \* largest retention limit of the storage runs
MaxEntrySlot == 2      \* slots and block roots of the entry() runs

\* ------------------------------------------------------ program constants
PENDING_PROOF_TIMEOUT == 300
MAX_ATTEMPT == 3         \* post_webhook of the proof engine
PENDING_REQUEST_TIMEOUT == 600
PROOF_CACHE_CAP == 1024
PROOF_SUBMISSION_MAX_RETRIES == 3
BackfillBehind == 5      \* `status.gap < -5` in BackfillService::run
BackfillMaxSlots == 20   \* backfill_proofs(client, 20)

Hashes == {"h1", "h2"}
Clients == {"c1", "c2"}
\* proof_engine_client.proof_types(); ElProofType is totally ordered and the
\* BTreeMap of pending requests iterates in the same order.
ProofTypeOrder == <<"t1">>
ProofTypes == {ProofTypeOrder[i] : i \in 1..Len(ProofTypeOrder)}
Keys == Hashes \X ProofTypes
UnknownGen == 0        \* a proof_gen_id the proof engine never issued
GenIds == 1..MaxGen

VARIABLES
    now,               \* Instant::now(), in seconds
    cfg,               \* storage configuration: [storage, retain]
    el_data_cache,     \* LruCache<B256, ElBlockWitness>, least recent first
    el_lock,           \* holder of the el_data_cache mutex across an await
    proof_cache,       \* LruCache<ProofKey, Proof>, least recent first
    diskEl,            \* block hashes whose data.json.gz is on disk
    diskProof,         \* proof keys whose proof file is on disk
    retained,          \* BlockStorage.retained (VecDeque)
    diskCl,            \* block hashes whose directory holds CL metadata
    meta,              \* metadata.json per block hash (0: field is None)
    pending_requests,  \* HashMap<B256, BTreeMap<ElProofType, PendingRequest>>
    pending_proofs,    \* HashMap<ProofKey, PendingProof>
    proof_gen_ids,     \* HashMap<ProofGenId, ProofKey>
    pp_lock,           \* holder of the pending_proofs mutex across an await
    gi_lock,           \* holder of the proof_gen_ids mutex across an await
    proof_rx,          \* the ProofService channel
    ps,                \* position and locals of ProofService::run
    wh,                \* the webhook handlers
    fetch_tasks,       \* JoinSet of fetch_el_data tasks, counted per hash and state
    in_flight,         \* ElDataService.in_flight
    fetch_skipped,     \* history: hashes whose FetchData was skipped as in flight
    eld,               \* position of ElDataService::run inside handle_fetch_data
    nextGen,           \* next proof_gen_id the proof engine issues
    delivered,         \* webhook deliveries made so far
    sent,              \* RequestProof messages sent so far, per block hash
    fetched,           \* FetchData messages handled so far
    response,          \* history: id and status code of the last webhook response
    lastPost,          \* history: time of the last POST /prove per key (-1: none)
    whPassed,          \* history: deliveries per id that found the id in proof_gen_ids
    submitted,         \* history: submit_proof tasks spawned per job and client
    outcomes,          \* history: POST /prove + stored-proof deliveries per key
    sp,                \* the submit_proof tasks of one proof, per CL client
    ft,                \* one fetch_el_data task, step by step
    tu,                \* one evaluation of Target::union: operands and results
    bf,                \* BackfillService: one tick of its loop, step by step
    lk,                \* lock operations of the ProofService tasks, one by one
    sd,                \* the cancellation token and the loops of the event services
    pq,                \* one pending_requests entry() call: operands and result
    pw                 \* one post_webhook call of the proof engine, step by step

vars == <<now, cfg, el_data_cache, el_lock, proof_cache, diskEl, diskProof,
          retained, diskCl, meta, pending_requests, pending_proofs, proof_gen_ids, pp_lock,
          gi_lock, proof_rx, ps, wh, fetch_tasks, in_flight, fetch_skipped, eld,
          nextGen,
          delivered, sent, fetched, response, lastPost, whPassed, submitted,
          outcomes, sp, ft, tu, bf, lk, sd, pq, pw>>

\* -------------------------------------------------------------- Target<T>
All == [all |-> TRUE, set |-> {}]
Specific(S) == [all |-> FALSE, set |-> S]

contains(target, value) == target.all \/ value \in target.set

\* a union that treats the empty Specific set as "no restriction"
union_empty_is_all(lhs, rhs) ==
    IF lhs.all \/ rhs.all \/ lhs.set \cup rhs.set = {}
    THEN All ELSE Specific(lhs.set \cup rhs.set)

\* a merge that keeps only the newer request's targets
union_overwrite(lhs, rhs) == rhs

union(lhs, rhs) ==
    IF lhs.all \/ rhs.all THEN All ELSE Specific(lhs.set \cup rhs.set)

\* the Target values over the CL client names
Targets == {All} \cup {Specific(S) : S \in SUBSET Clients}
NoUnion == [pc |-> "none", a |-> All, b |-> All, ab |-> All, ba |-> All]

\* ------------------------------------------------------------------- maps
Remove(f, k) == [x \in (DOMAIN f) \ {k} |-> f[x]]
Insert(f, k, v) == [x \in (DOMAIN f) \cup {k} |-> IF x = k THEN v ELSE f[x]]
EmptyMap == [x \in {} |-> 0]
Sat2(n) == IF n >= 2 THEN 2 ELSE n + 1

\* --------------------------------------------------------------- LruCache
InSeq(s, k) == \E i \in 1..Len(s) : s[i] = k
Without(s, k) == SelectSeq(s, LAMBDA x : x # k)

\* LruCache::put: insert or refresh k as most recently used, evicting the
\* least recently used entry when the cache is full.
LruPut(s, k, cap) ==
    IF InSeq(s, k) THEN Append(Without(s, k), k)
    ELSE IF Len(s) >= cap THEN Append(Tail(s), k)
    ELSE Append(s, k)

\* LruCache::get: a hit makes k most recently used.
LruGet(s, k) == IF InSeq(s, k) THEN Append(Without(s, k), k) ELSE s

elapsed(created_at) == now - created_at

TypeOfKey(k) == k[2]
HashOfKey(k) == k[1]

\* ----------------------------------------------------------- BlockStorage
NoRetain == -1         \* retain: None
NoStorage == [storage |-> FALSE, retain |-> NoRetain]
StorageConfigs ==
    {NoStorage, [storage |-> TRUE, retain |-> NoRetain],
     [storage |-> TRUE, retain |-> Retain]}

\* block hashes the storage operations are called with
StoreHashes == Hashes \cup {"h3", "h4"}

\* BlockMetadata without block_hash; a block has one slot, one beacon root,
\* one number and one gas_used, written here as the number of its hash.
NoMetadata == [slot |-> 0, beacon_block_root |-> 0, block_number |-> 0, gas_used |-> 0]
HashNo(h) == CASE h = "h1" -> 1 [] h = "h2" -> 2 [] h = "h3" -> 3 [] OTHER -> 4

\* save_el_data: the existing metadata.json (or the default) with
\* block_number and gas_used set
el_metadata(h) ==
    [meta[h] EXCEPT !.block_number = HashNo(h), !.gas_used = HashNo(h)]

\* save_cl_data: the same with slot and beacon_block_root set
cl_metadata(h) ==
    [meta[h] EXCEPT !.slot = HashNo(h), !.beacon_block_root = HashNo(h)]

\* metadata.json of the directories found at start: written by save_el_data
InitMeta ==
    meta = [h \in StoreHashes |->
              IF h \in diskEl
              THEN [NoMetadata EXCEPT !.block_number = HashNo(h), !.gas_used = HashNo(h)]
              ELSE NoMetadata]

\* a retention that never pops
Expired_never == {}

\* save_el_data: the entry popped from the front of `retained` when the
\* deque is full (retained.len() == retained.capacity()).
Expired ==
    IF cfg.retain # NoRetain /\ Len(retained) = cfg.retain /\ Len(retained) > 0
    THEN {Head(retained)} ELSE {}

RetainedAfterSave(h) ==
    IF cfg.retain = NoRetain THEN retained
    ELSE IF Len(retained) = cfg.retain /\ Len(retained) > 0
         THEN Append(Tail(retained), h)
    ELSE Append(retained, h)

\* delete_old_block removes the whole block directory: data and proofs.
delete_old_block(els, expired) == els \ expired
delete_old_proofs(proofs, expired) == {k \in proofs : HashOfKey(k) \notin expired}

\* save_el_data(el_data) called by a fetch task; ioOk = FALSE is an I/O
\* error before anything was written.
save_el_data(h, ioOk) ==
    IF cfg.storage /\ ioOk
    THEN /\ diskEl' = delete_old_block(diskEl \cup {h}, Expired)
         /\ diskProof' = delete_old_proofs(diskProof, Expired)
         /\ diskCl' = delete_old_block(diskCl, Expired)
         /\ meta' = [x \in StoreHashes |->
                       IF x \in Expired THEN NoMetadata
                       ELSE IF x = h THEN el_metadata(h)
                       ELSE meta[x]]
         /\ retained' = RetainedAfterSave(h)
    ELSE UNCHANGED <<diskEl, diskProof, retained, diskCl, meta>>

\* save_cl_data(block_hash, slot, beacon_block_root) called by
\* ClEventService: create_dir_all and metadata.json, no retention.
save_cl_data(h, ioOk) ==
    IF cfg.storage /\ ioOk
    THEN /\ diskCl' = diskCl \cup {h}
         /\ meta' = [meta EXCEPT ![h] = cl_metadata(h)]
    ELSE UNCHANGED <<diskCl, meta>>

\* the block-hash directories under the chain directory
BlockDirs == diskEl \cup diskCl \cup {HashOfKey(k) : k \in diskProof}

\* save_proof(block_hash, proof_type, bytes) called by the webhook.
save_proof(k, ioOk) ==
    IF cfg.storage /\ ioOk
    THEN diskProof' = diskProof \cup {k}
    ELSE UNCHANGED diskProof

\* ------------------------------------------------------------------- Init
\* (ids is history: proof_gen_ids as request_proof found it under its locks)
IdlePs == [pc |-> "idle", from |-> "none", h |-> "h1", tc |-> All,
           types |-> <<>>, reqs |-> EmptyMap, out |-> {}, ids |-> EmptyMap]
IdleWh == [pc |-> "idle", g |-> UnknownGen, err |-> FALSE, key |-> <<"h1", "t1">>,
           tc |-> All]
TaskStates == {"running", "sending", "finished", "failed"}
IdleEld == [pc |-> "idle", h |-> "h1"]
\* a submit_proof task: retry_count is the loop variable, attempts counts the
\* calls of submit_execution_proof, backoffs lists the sleeps in seconds
NoSubmit == [pc |-> "none", retry_count |-> 0, attempts |-> 0, backoffs |-> <<>>,
             result |-> "none"]
\* a fetch_el_data task: i is the position in el_clients, seen lists what the
\* endpoints tried so far returned, log lists the task's effects in order
NoFetch == [pc |-> "none", h |-> "h1", i |-> 1, seen |-> <<>>, log |-> <<>>]

\* The tasks that lock the ProofService maps: the run loop and the webhook
\* handlers; lk.path is the code path a task is in, lk.pc the next operation
\* of that path, lk.pr the holder of the pending_requests mutex.
LockProcs == {"run", "wh1", "wh2"}
IdleLk == [path |-> [p \in LockProcs |-> "none"], pc |-> [p \in LockProcs |-> 1],
           pr |-> "free"]

\* A PendingRequest slot of the map that is vacant, and the entry() call
\* before its operands are chosen.
NoRequest == [slot |-> 0, block_root |-> 0, target_clients |-> All, created_at |-> 0 - 1]
NoEntryCall == [pc |-> "none", existing |-> NoRequest, req |-> NoRequest,
                result |-> NoRequest]

\* RECONNECT_DELAY of ClEventService::run and of ElEventService::run, in
\* seconds
CL_RECONNECT_DELAY == 5
EL_RECONNECT_DELAY == 2

\* post_webhook has not been called
NoPost == [pc |-> "none", attempt |-> 0, replies |-> <<>>, slept |-> <<>>]

\* The shutdown token is not cancelled; ClEventService is in its stream loop,
\* ElEventService about to subscribe, BackfillService at its select. clr and
\* elr are the last item the loop took from its stream, cld and els the
\* seconds the sleep of the current delay has run.
IdleSd == [cancelled |-> FALSE, cl |-> "stream", clh |-> "h1", clr |-> "ok", cld |-> 0,
           el |-> "subscribe", elr |-> "ok", els |-> 0, bf |-> "idle"]

\* BackfillService: head slots read with get_head_slot (HeadErr: the call
\* failed) and the position in one tick
HeadErr == 0 - 1
SourceHeads == {120, 125}
ZkHeads == {90, 110, 114, 115, 125}
PayloadPatterns == {"all", "even", "none"}
ClientOrder == <<"c1", "c2">>
IdleBf == [pc |-> "idle", source |-> HeadErr, heads |-> [c \in Clients |-> HeadErr],
           todo |-> <<>>, c |-> "c1", pattern |-> "all",
           zkvm_head |-> [c \in Clients |-> HeadErr],
           source_head |-> [c \in Clients |-> HeadErr],
           slot |-> 0, last |-> 0, out |-> <<>>]

InitCommon ==
    /\ now = 0
    /\ el_lock = "free"
    /\ diskCl = {}
    /\ proof_cache = <<>>
    /\ pending_requests = EmptyMap
    /\ pending_proofs = EmptyMap
    /\ proof_gen_ids = EmptyMap
    /\ pp_lock = "free"
    /\ gi_lock = "free"
    /\ proof_rx = <<>>
    /\ ps = IdlePs
    /\ wh = [w \in 1..NumWebhooks |-> IdleWh]
    /\ fetch_tasks = [h \in Hashes |-> [st \in TaskStates |-> 0]]
    /\ in_flight = {}
    /\ fetch_skipped = {}
    /\ eld = IdleEld
    /\ nextGen = 1
    /\ delivered = 0
    /\ sent = [h \in Hashes |-> 0]
    /\ fetched = 0
    /\ response = [g |-> UnknownGen, code |-> 0]
    /\ lastPost = [k \in Keys |-> -1]
    /\ whPassed = [g \in GenIds |-> 0]
    /\ submitted = [g \in GenIds |-> [c \in Clients |-> 0]]
    /\ outcomes = [k \in Keys |-> 0]
    /\ sp = [c \in Clients |-> NoSubmit]
    /\ ft = NoFetch
    /\ tu = NoUnion
    /\ bf = IdleBf
    /\ lk = IdleLk
    /\ sd = IdleSd
    /\ pq = NoEntryCall
    /\ pw = NoPost

\* The state after construction, with storage and retention configured.
Init ==
    /\ InitCommon
    /\ cfg \in StorageConfigs
    /\ el_data_cache = <<>>
    /\ diskEl = {}
    /\ diskProof = {}
    /\ retained = <<>>
    /\ InitMeta

\* groups of variables, for UNCHANGED
storeVars == <<diskEl, diskProof, retained, diskCl, meta>>
elVars == <<el_data_cache, el_lock, fetch_tasks, in_flight, fetch_skipped, eld>>
proofMaps == <<pending_proofs, proof_gen_ids, pp_lock, gi_lock>>
whVars == <<wh, delivered, response, whPassed, submitted>>
histVars == <<lastPost, outcomes>>
envVars == <<sent, fetched>>
taskVars == <<sp, ft>>
calcVars == <<tu, bf, lk, sd, pq, pw>>

\* ----------------------------------------------------- ProofService::run
CurType == Head(ps.types)
CurKey == <<ps.h, CurType>>
\* target_clients of the item being handled: the message's for a
\* RequestProof, the PendingRequest's for a BlockDataReady.
CurTc == IF ps.from = "bdr" THEN ps.reqs[CurType].target_clients ELSE ps.tc

Done(outcome) == [ps EXCEPT !.pc = "item_done", !.out = @ \cup {outcome}]

\* `Some(message) = proof_rx.recv()` with a RequestProof: the proof types to
\* handle are the configured ones that target_proof_types contains.
RecvRequestProof ==
    /\ ps.pc = "idle"
    /\ ~sd.cancelled
    /\ proof_rx # <<>>
    /\ Head(proof_rx).type = "RequestProof"
    /\ LET m == Head(proof_rx)
           types == SelectSeq(ProofTypeOrder, LAMBDA t : contains(m.tpt, t))
       IN ps' = IF types = <<>> THEN IdlePs
                ELSE [IdlePs EXCEPT !.pc = "load_proof", !.from = "rp",
                                    !.h = m.h, !.tc = m.tc, !.types = types]
    /\ proof_rx' = Tail(proof_rx)
    /\ UNCHANGED <<envVars, now, cfg, calcVars, taskVars, proof_cache, storeVars, elVars, pending_requests,
                   proofMaps, whVars, nextGen, histVars>>

\* a lookup that leaves the subtree in the map
take_pending_requests_get(h) == pending_requests

\* pending_requests.lock().await.remove(&block_hash): the map afterwards
take_pending_requests(h) == Remove(pending_requests, h)

\* handle_block_data_ready: remove the whole pending_requests[block_hash]
\* subtree, then iterate it.
RecvBlockDataReady ==
    /\ ps.pc = "idle"
    /\ ~sd.cancelled
    /\ proof_rx # <<>>
    /\ Head(proof_rx).type = "BlockDataReady"
    /\ LET h == Head(proof_rx).h IN
       IF h \in DOMAIN pending_requests
       THEN /\ pending_requests' = take_pending_requests(h)
            /\ ps' = [IdlePs EXCEPT
                        !.pc = "load_proof", !.from = "bdr", !.h = h,
                        !.reqs = pending_requests[h],
                        !.types = SelectSeq(ProofTypeOrder,
                                    LAMBDA t : t \in DOMAIN pending_requests[h])]
       ELSE UNCHANGED <<pending_requests, ps>>
    /\ proof_rx' = Tail(proof_rx)
    /\ UNCHANGED <<envVars, now, cfg, calcVars, taskVars, proof_cache, storeVars, elVars, proofMaps, whVars,
                   nextGen, histVars>>

\* load_proof: cache first, then disk; a disk hit populates the cache.
ProofInCache(k) == InSeq(proof_cache, k)
ProofOnDisk(k) == cfg.storage /\ k \in diskProof
load_proof_hit(k) == ProofInCache(k) \/ ProofOnDisk(k)
load_proof_cache(k) ==
    IF ProofInCache(k) THEN LruGet(proof_cache, k)
    ELSE IF ProofOnDisk(k) THEN LruPut(proof_cache, k, PROOF_CACHE_CAP)
    ELSE proof_cache

\* First step of handle_request_proof and of each iteration of
\* handle_block_data_ready: a stored proof is submitted to the target
\* clients (submit_proofs spawns the tasks without awaiting).
LoadProof ==
    /\ ps.pc = "load_proof"
    /\ proof_cache' = load_proof_cache(CurKey)
    /\ IF load_proof_hit(CurKey)
       THEN /\ ps' = Done("deliver")
            /\ outcomes' = [outcomes EXCEPT ![CurKey] = Sat2(@)]
       ELSE /\ ps' = [ps EXCEPT !.pc = IF ps.from = "rp" THEN "el_avail"
                                       ELSE "peek"]
            /\ UNCHANGED outcomes
    /\ UNCHANGED <<envVars, now, cfg, calcVars, taskVars, storeVars, elVars, pending_requests, proofMaps,
                   proof_rx, whVars, nextGen, lastPost>>

\* an availability test that looks at the LRU only
is_el_data_cached(h) == InSeq(el_data_cache, h)

\* a lookup that reads the disk and forgets to fill the LRU
el_cache_not_filled(h) == el_data_cache

\* is_el_data_available: in the LRU (contains does not refresh), or loaded
\* from disk into the LRU.
ElOnDisk(h) == cfg.storage /\ h \in diskEl
is_el_data_available(h) == InSeq(el_data_cache, h) \/ ElOnDisk(h)
el_cache_after_check(h) ==
    IF InSeq(el_data_cache, h) THEN el_data_cache
    ELSE IF ElOnDisk(h) THEN LruPut(el_data_cache, h, ElCacheCap)
    ELSE el_data_cache

\* PendingRequest { slot, block_root, target_clients, created_at: Instant::now() }
PendingRequest(slot, block_root, tc) ==
    [slot |-> slot, block_root |-> block_root, target_clients |-> tc,
     created_at |-> now]

\* an upsert that builds the entry anew from the request
and_modify_rebuild(existing, req) ==
    PendingRequest(req.slot, req.block_root,
                   union(existing.target_clients, req.target_clients))

\* .and_modify(|existing| existing.target_clients = existing.target_clients.union(..))
and_modify(existing, req) ==
    [existing EXCEPT !.target_clients = union(@, req.target_clients)]

\* .or_insert_with(|| PendingRequest { .. })
or_insert_with(req) == PendingRequest(req.slot, req.block_root, req.target_clients)

\* entry(proof_type).and_modify(..).or_insert_with(..) on pending_requests[h];
\* slot and block_root are those of the block.
merge_pending(h, t, tc) ==
    LET block_requests == IF h \in DOMAIN pending_requests
                          THEN pending_requests[h] ELSE EmptyMap
        req == [slot |-> HashNo(h), block_root |-> HashNo(h), target_clients |-> tc]
        entry == IF t \in DOMAIN block_requests
                 THEN and_modify(block_requests[t], req)
                 ELSE or_insert_with(req)
    IN Insert(pending_requests, h, Insert(block_requests, t, entry))

\* handle_request_proof after a load_proof miss.
ElAvail ==
    /\ ps.pc = "el_avail"
    /\ el_lock = "free"
    /\ el_data_cache' = el_cache_after_check(ps.h)
    /\ IF is_el_data_available(ps.h)
       THEN /\ ps' = [ps EXCEPT !.pc = "peek"]
            /\ UNCHANGED pending_requests
       ELSE /\ pending_requests' = merge_pending(ps.h, CurType, ps.tc)
            /\ ps' = Done("pend")
    /\ UNCHANGED <<envVars, now, cfg, calcVars, taskVars, proof_cache, storeVars, el_lock, fetch_tasks,
                   in_flight, fetch_skipped, eld, proofMaps, proof_rx, whVars, nextGen,
                   histVars>>

\* request_proof, reading the block from the LRU with peek.
Peek ==
    /\ ps.pc = "peek"
    /\ el_lock = "free"
    /\ ps' = IF InSeq(el_data_cache, ps.h) THEN [ps EXCEPT !.pc = "locks"]
             ELSE Done("nodata")
    /\ UNCHANGED <<envVars, now, cfg, calcVars, taskVars, proof_cache, storeVars, elVars, pending_requests,
                   proofMaps, proof_rx, whVars, nextGen, histVars>>

\* the deduplication test with the comparison turned around
in_flight_fresh_inverted(k) ==
    /\ k \in DOMAIN pending_proofs
    /\ elapsed(pending_proofs[k].created_at) >= PENDING_PROOF_TIMEOUT

\* the deduplication test of request_proof
in_flight_fresh(k) ==
    /\ k \in DOMAIN pending_proofs
    /\ elapsed(pending_proofs[k].created_at) < PENDING_PROOF_TIMEOUT

\* request_proof from taking both locks up to the POST /prove: a fresh
\* PendingProof ends the call; a stale one loses its proof_gen_ids entry.
Locks ==
    /\ ps.pc = "locks"
    /\ pp_lock = "free"
    /\ gi_lock = "free"
    /\ IF in_flight_fresh(CurKey)
       THEN /\ ps' = Done("skip")
            /\ UNCHANGED <<proof_gen_ids, pp_lock, gi_lock, lastPost, outcomes>>
       ELSE /\ proof_gen_ids' =
                 IF CurKey \in DOMAIN pending_proofs
                 THEN Remove(proof_gen_ids, pending_proofs[CurKey].proof_gen_id)
                 ELSE proof_gen_ids
            /\ pp_lock' = "run"
            /\ gi_lock' = "run"
            /\ ps' = [ps EXCEPT !.pc = "http", !.out = @ \cup {"post"},
                                !.ids = proof_gen_ids]
            /\ lastPost' = [lastPost EXCEPT ![CurKey] = now]
            /\ outcomes' = [outcomes EXCEPT ![CurKey] = Sat2(@)]
    /\ UNCHANGED <<envVars, now, cfg, calcVars, taskVars, proof_cache, storeVars, elVars, pending_requests,
                   pending_proofs, proof_rx, whVars, nextGen>>

\* a PendingProof stamped with the start of the clock instead of now
new_pending_proof_unstamped(tc, proof_gen_id) ==
    [target_clients |-> tc, created_at |-> 0, proof_gen_id |-> proof_gen_id,
     posted_at |-> lastPost[CurKey]]

\* PendingProof { target_clients, created_at: Instant::now(), proof_gen_id };
\* posted_at is history: when the POST /prove of this job was sent.
new_pending_proof(tc, proof_gen_id) ==
    [target_clients |-> tc, created_at |-> now, proof_gen_id |-> proof_gen_id,
     posted_at |-> lastPost[CurKey]]

\* The proof engine answers the POST /prove: Ok(proof_gen_id) inserts into
\* both maps before the locks are dropped, Err only drops the locks.
Http ==
    /\ ps.pc = "http"
    /\ \E ok \in BOOLEAN :
         IF ok
         THEN /\ nextGen <= MaxGen
              /\ pending_proofs' = Insert(pending_proofs, CurKey,
                                           new_pending_proof(CurTc, nextGen))
              /\ proof_gen_ids' = Insert(proof_gen_ids, nextGen, CurKey)
              /\ nextGen' = nextGen + 1
         ELSE UNCHANGED <<pending_proofs, proof_gen_ids, nextGen>>
    /\ pp_lock' = "free"
    /\ gi_lock' = "free"
    /\ ps' = [ps EXCEPT !.pc = "item_done"]
    /\ UNCHANGED <<envVars, now, cfg, calcVars, taskVars, proof_cache, storeVars, elVars, pending_requests,
                   proof_rx, whVars, histVars>>

\* The handler returns; the loop goes on with the next proof type or the
\* next message.
ItemDone ==
    /\ ps.pc = "item_done"
    /\ ps' = IF Len(ps.types) > 1
             THEN [ps EXCEPT !.pc = "load_proof", !.types = Tail(@), !.out = {}]
             ELSE IdlePs
    /\ UNCHANGED <<envVars, now, cfg, calcVars, taskVars, proof_cache, storeVars, elVars, pending_requests,
                   proofMaps, proof_rx, whVars, nextGen, histVars>>

\* cleanup_stale_entries, on the cleanup_interval tick.
stale_requests_removed ==
    LET kept(h) == {t \in DOMAIN pending_requests[h] :
                      elapsed(pending_requests[h][t].created_at)
                          < PENDING_REQUEST_TIMEOUT}
        hs == {h \in DOMAIN pending_requests : kept(h) # {}}
    IN [h \in hs |-> [t \in kept(h) |-> pending_requests[h][t]]]

\* stale proofs told by the deduplication timeout
stale_proof_keys_dedup ==
    {k \in DOMAIN pending_proofs :
       elapsed(pending_proofs[k].created_at) >= PENDING_PROOF_TIMEOUT}

stale_proof_keys ==
    {k \in DOMAIN pending_proofs :
       elapsed(pending_proofs[k].created_at) >= PENDING_REQUEST_TIMEOUT}

cleanup_stale_entries ==
    /\ ps.pc = "idle"
    /\ ~sd.cancelled
    /\ pp_lock = "free"
    /\ gi_lock = "free"
    /\ pending_requests' = stale_requests_removed
    /\ pending_proofs' = [k \in (DOMAIN pending_proofs) \ stale_proof_keys
                            |-> pending_proofs[k]]
    /\ proof_gen_ids' =
         [g \in (DOMAIN proof_gen_ids) \
                  {pending_proofs[k].proof_gen_id : k \in stale_proof_keys}
            |-> proof_gen_ids[g]]
    /\ UNCHANGED <<envVars, now, cfg, calcVars, taskVars, proof_cache, storeVars, elVars, pp_lock, gi_lock,
                   proof_rx, ps, whVars, nextGen, histVars>>

\* ---------------------------------------------------------- proof_webhook
Respond(g, code) == response' = [g |-> g, code |-> code]

\* POST /proofs arrives with a result for an issued job, or with an id the
\* proof engine never issued. Handlers are taken lowest slot first.
WebhookArrive(w, g, err) ==
    /\ wh[w].pc = "idle"
    /\ \A v \in 1..(w - 1) : wh[v].pc # "idle"
    /\ g = UnknownGen \/ g < nextGen
    /\ delivered < MaxDeliveries
    /\ delivered' = delivered + 1
    /\ wh' = [wh EXCEPT ![w] = [IdleWh EXCEPT !.pc = "lookup", !.g = g,
                                               !.err = err]]
    /\ UNCHANGED <<envVars, now, cfg, calcVars, taskVars, proof_cache, storeVars, elVars,
                   pending_requests, proofMaps, proof_rx, ps, nextGen,
                   response, whPassed, submitted, histVars>>

\* a lookup that reads the index without removing the id
keep_gen_id(g) == proof_gen_ids

\* proof_gen_ids.lock().await.remove(&proof_gen_id)
remove_gen_id(g) == Remove(proof_gen_ids, g)

\* an unknown id acknowledged as if it had been processed
unknown_gen_id_ok(g) == [g |-> g, code |-> 200]

\* the answer to an id that is not in proof_gen_ids
unknown_gen_id(g) == [g |-> g, code |-> 400]

\* The handler removes the id from proof_gen_ids; an unknown id is answered
\* with 400.
WebhookLookup(w) ==
    /\ wh[w].pc = "lookup"
    /\ gi_lock = "free"
    /\ IF wh[w].g \in DOMAIN proof_gen_ids
       THEN /\ proof_gen_ids' = remove_gen_id(wh[w].g)
            /\ wh' = [wh EXCEPT ![w].pc = "remove_pending",
                                ![w].key = proof_gen_ids[wh[w].g]]
            /\ whPassed' = [whPassed EXCEPT ![wh[w].g] = Sat2(@)]
            /\ UNCHANGED response
       ELSE /\ response' = unknown_gen_id(wh[w].g)
            /\ wh' = [wh EXCEPT ![w] = IdleWh]
            /\ UNCHANGED <<proof_gen_ids, whPassed>>
    /\ UNCHANGED <<envVars, now, cfg, calcVars, taskVars, proof_cache, storeVars, elVars,
                   pending_requests, pending_proofs, pp_lock, gi_lock, proof_rx,
                   ps, nextGen, delivered, submitted, histVars>>

\* The handler removes pending_proofs[proof_key]: 500 when it is missing,
\* 200 without further effect when the result carries an error.
WebhookRemovePending(w) ==
    /\ wh[w].pc = "remove_pending"
    /\ pp_lock = "free"
    /\ IF wh[w].key \in DOMAIN pending_proofs
       THEN /\ pending_proofs' = Remove(pending_proofs, wh[w].key)
            /\ IF wh[w].err
               THEN /\ wh' = [wh EXCEPT ![w] = IdleWh]
                    /\ Respond(wh[w].g, 200)
               ELSE /\ wh' = [wh EXCEPT ![w].pc = "store",
                               ![w].tc = pending_proofs[wh[w].key].target_clients]
                    /\ UNCHANGED response
       ELSE /\ wh' = [wh EXCEPT ![w] = IdleWh]
            /\ Respond(wh[w].g, 500)
            /\ UNCHANGED pending_proofs
    /\ UNCHANGED <<envVars, now, cfg, calcVars, taskVars, proof_cache, storeVars, elVars, pending_requests,
                   proof_gen_ids, pp_lock, gi_lock, proof_rx, ps, nextGen,
                   delivered, whPassed, submitted, histVars>>

\* submit_proofs: one submit_proof task per zk-enabled client that the
\* target contains.
submit_proofs(g, tc) ==
    [submitted EXCEPT ![g] = [c \in Clients |->
        IF contains(tc, c) THEN Sat2(submitted[g][c]) ELSE submitted[g][c]]]

\* The handler puts the proof into proof_cache, saves it to disk (which may
\* fail) and spawns the submissions.
WebhookStore(w) ==
    /\ wh[w].pc = "store"
    /\ proof_cache' = LruPut(proof_cache, wh[w].key, PROOF_CACHE_CAP)
    /\ \E ioOk \in BOOLEAN :
         /\ cfg.storage \/ ioOk
         /\ save_proof(wh[w].key, ioOk)
    /\ submitted' = submit_proofs(wh[w].g, wh[w].tc)
    /\ wh' = [wh EXCEPT ![w] = IdleWh]
    /\ Respond(wh[w].g, 200)
    /\ UNCHANGED <<envVars, now, cfg, calcVars, taskVars, diskEl, retained, diskCl, meta, elVars,
                   pending_requests,
                   proofMaps, proof_rx, ps, nextGen, delivered, whPassed,
                   histVars>>

\* ---------------------------------------------------------- ElDataService
BlockDataReady(h) == [type |-> "BlockDataReady", h |-> h, tc |-> All, tpt |-> All]
RequestProof(h, tc) == [type |-> "RequestProof", h |-> h, tc |-> tc, tpt |-> All]
\* proof_tx.send(m).await returns at once: there is room, or the receiver was
\* dropped with ProofService::run and the send fails
HasRoom == Len(proof_rx) < ChannelCap \/ ps.pc = "exited"
\* the channel after a send that returned
Sent(m) == IF ps.pc = "exited" THEN proof_rx ELSE Append(proof_rx, m)

Tasks(h, st) == fetch_tasks[h][st]
MoveTask(h, from, to) ==
    [fetch_tasks EXCEPT ![h] = [@ EXCEPT ![from] = @ - 1, ![to] = @ + 1]]

\* an insert whose result is ignored
in_flight_insert_always(h) == TRUE

\* in_flight.insert(block_hash): TRUE when h was not in the set
in_flight_insert(h) == h \notin in_flight

\* handle_fetch_data from is_el_data_available on: available data is
\* announced (the send waits while the channel is full), otherwise a fetch
\* task is spawned unless h is already in in_flight.
fetch_data_check(h) ==
    /\ el_data_cache' = el_cache_after_check(h)
    /\ IF is_el_data_available(h)
       THEN /\ IF HasRoom
               THEN /\ proof_rx' = Sent(BlockDataReady(h))
                    /\ eld' = IdleEld
               ELSE /\ eld' = [pc |-> "send", h |-> h]
                    /\ UNCHANGED proof_rx
            /\ UNCHANGED <<in_flight, fetch_tasks, fetch_skipped>>
       ELSE /\ in_flight' = in_flight \cup {h}
            /\ IF in_flight_insert(h)
               THEN /\ fetch_tasks' = [fetch_tasks EXCEPT ![h]["running"] = @ + 1]
                    /\ UNCHANGED fetch_skipped
               ELSE /\ fetch_skipped' = fetch_skipped \cup {h}
                    /\ UNCHANGED fetch_tasks
            /\ eld' = IdleEld
            /\ UNCHANGED proof_rx

\* `Some(message) = el_data_rx.recv()` with FetchData{h}, and
\* handle_fetch_data as far as it gets without waiting: when a fetch task
\* holds the el_data_cache lock the handler waits for it.
handle_fetch_data(h) ==
    /\ eld.pc = "idle"
    /\ ~sd.cancelled
    /\ fetched < MaxFetchData
    /\ fetched' = fetched + 1
    /\ IF el_lock = "free"
       THEN fetch_data_check(h)
       ELSE /\ eld' = [pc |-> "check", h |-> h]
            /\ UNCHANGED <<el_data_cache, proof_rx, in_flight, fetch_tasks,
                           fetch_skipped>>
    /\ UNCHANGED <<sent, now, cfg, calcVars, taskVars, proof_cache, storeVars, el_lock,
                   pending_requests, proofMaps, ps, whVars, nextGen, histVars>>

\* handle_fetch_data goes on after waiting for the el_data_cache lock or for
\* room in the ProofService channel.
FetchDataResume ==
    /\ \/ /\ eld.pc = "check"
          /\ el_lock = "free"
          /\ fetch_data_check(eld.h)
       \/ /\ eld.pc = "send"
          /\ HasRoom
          /\ proof_rx' = Sent(BlockDataReady(eld.h))
          /\ eld' = IdleEld
          /\ UNCHANGED <<el_data_cache, in_flight, fetch_tasks, fetch_skipped>>
    /\ UNCHANGED <<envVars, now, cfg, calcVars, taskVars, proof_cache, storeVars, el_lock,
                   pending_requests, proofMaps, ps, whVars, nextGen, histVars>>

\* fetch_el_data finds an endpoint with block and witness: save to disk,
\* put into the LRU and send BlockDataReady while the LRU guard is alive.
FetchSucceed(h) ==
    /\ Tasks(h, "running") > 0
    /\ el_lock = "free"
    /\ \E ioOk \in BOOLEAN :
         /\ cfg.storage \/ ioOk
         /\ save_el_data(h, ioOk)
    /\ el_data_cache' = LruPut(el_data_cache, h, ElCacheCap)
    /\ IF HasRoom
       THEN /\ proof_rx' = Sent(BlockDataReady(h))
            /\ fetch_tasks' = MoveTask(h, "running", "finished")
            /\ UNCHANGED el_lock
       ELSE /\ fetch_tasks' = MoveTask(h, "running", "sending")
            /\ el_lock' = "fetch"
            /\ UNCHANGED proof_rx
    /\ UNCHANGED <<envVars, now, cfg, calcVars, taskVars, proof_cache, in_flight, fetch_skipped,
                   eld, pending_requests,
                   proofMaps, ps, whVars, nextGen, histVars>>

\* The send of a fetch task that waited for room in the channel completes.
FetchSend(h) ==
    /\ Tasks(h, "sending") > 0
    /\ HasRoom
    /\ proof_rx' = Sent(BlockDataReady(h))
    /\ fetch_tasks' = MoveTask(h, "sending", "finished")
    /\ el_lock' = "free"
    /\ UNCHANGED <<envVars, now, cfg, calcVars, taskVars, proof_cache, storeVars, el_data_cache, in_flight,
                   fetch_skipped, eld,
                   pending_requests, proofMaps, ps, whVars, nextGen, histVars>>

\* fetch_el_data finds no endpoint with both block and witness.
FetchFail(h) ==
    /\ Tasks(h, "running") > 0
    /\ fetch_tasks' = MoveTask(h, "running", "failed")
    /\ UNCHANGED <<envVars, now, cfg, calcVars, taskVars, proof_cache, storeVars, el_data_cache, el_lock,
                   in_flight, fetch_skipped, eld, pending_requests, proofMaps, proof_rx, ps,
                   whVars, nextGen, histVars>>

\* `Some(result) = fetch_tasks.join_next()` with Ok(block_hash), taken when
\* the loop is back at its select.
JoinNext(h) ==
    /\ eld.pc = "idle"
    /\ ~sd.cancelled
    /\ \E st \in {"finished", "failed"} :
         /\ Tasks(h, st) > 0
         /\ fetch_tasks' = [fetch_tasks EXCEPT ![h][st] = @ - 1]
    /\ in_flight' = in_flight \ {h}
    /\ UNCHANGED <<envVars, now, cfg, calcVars, taskVars, proof_cache, storeVars, el_data_cache,
                   el_lock, fetch_skipped, eld, pending_requests, proofMaps,
                   proof_rx, ps, whVars, nextGen, histVars>>

\* ------------------------------------------------- fetch_el_data in steps
\* The same task as FetchSucceed/FetchSend/FetchFail, one await at a time.
\* tokio spawn of fetch_el_data(block_hash)
TaskStart(h) ==
    /\ ft.pc \in {"none", "returned", "failed"}
    /\ ft' = [NoFetch EXCEPT !.pc = "block", !.h = h]
    /\ UNCHANGED <<envVars, now, cfg, calcVars, sp, proof_cache, storeVars, elVars,
                   pending_requests, proofMaps, proof_rx, ps, whVars, nextGen,
                   histVars>>

\* `continue`: the next el_client, or the end of the for loop
NextEndpoint(t, outcome) ==
    IF t.i = NumEndpoints
    THEN [t EXCEPT !.pc = "failed", !.seen = Append(@, outcome)]
    ELSE [t EXCEPT !.pc = "block", !.i = @ + 1, !.seen = Append(@, outcome)]

\* a loop that goes on with its result as soon as an endpoint has the block
stops_at_block(outcome) == TRUE

\* the loop body reaches the code after the two matches only with a block
\* and a witness
stops_at(outcome) == outcome = "both"

\* el_client.get_block_by_hash(block_hash): Ok(Some), or Ok(None) / Err
TaskGetBlock(found) ==
    /\ ft.pc = "block"
    /\ ft' = IF found THEN [ft EXCEPT !.pc = "witness"]
             ELSE NextEndpoint(ft, "no block")
    /\ UNCHANGED <<envVars, now, cfg, calcVars, sp, proof_cache, storeVars, elVars,
                   pending_requests, proofMaps, proof_rx, ps, whVars, nextGen,
                   histVars>>

\* el_client.get_execution_witness_by_hash(block_hash)
TaskGetWitness(found) ==
    /\ ft.pc = "witness"
    /\ LET outcome == IF found THEN "both" ELSE "no witness" IN
       ft' = IF stops_at(outcome)
             THEN [ft EXCEPT !.pc = "save", !.seen = Append(@, outcome)]
             ELSE NextEndpoint(ft, outcome)
    /\ UNCHANGED <<envVars, now, cfg, calcVars, sp, proof_cache, storeVars, elVars,
                   pending_requests, proofMaps, proof_rx, ps, whVars, nextGen,
                   histVars>>

\* `if let Some(storage)`: save_el_data, whose error is only logged
TaskSave(ioOk) ==
    /\ ft.pc = "save"
    /\ cfg.storage \/ ioOk
    /\ save_el_data(ft.h, ioOk)
    /\ ft' = [ft EXCEPT !.pc = "put",
                        !.log = IF cfg.storage THEN Append(@, "save") ELSE @]
    /\ UNCHANGED <<envVars, now, cfg, calcVars, sp, proof_cache, elVars,
                   pending_requests, proofMaps, proof_rx, ps, whVars, nextGen,
                   histVars>>

\* el_data_cache.lock().await and cache.put; the guard lives on
TaskPut ==
    /\ ft.pc = "put"
    /\ el_lock = "free"
    /\ el_lock' = "fetch"
    /\ el_data_cache' = LruPut(el_data_cache, ft.h, ElCacheCap)
    /\ ft' = [ft EXCEPT !.pc = "send", !.log = Append(@, "put")]
    /\ UNCHANGED <<envVars, now, cfg, calcVars, sp, proof_cache, storeVars, fetch_tasks,
                   in_flight, fetch_skipped, eld,
                   pending_requests, proofMaps, proof_rx, ps, whVars, nextGen,
                   histVars>>

\* send_block_data_ready(block_hash).await, then return (the guard drops)
TaskSend ==
    /\ ft.pc = "send"
    /\ HasRoom
    /\ proof_rx' = Sent(BlockDataReady(ft.h))
    /\ el_lock' = "free"
    /\ ft' = [ft EXCEPT !.pc = "returned", !.log = Append(@, "send")]
    /\ UNCHANGED <<envVars, now, cfg, calcVars, sp, proof_cache, storeVars, el_data_cache,
                   fetch_tasks, in_flight, fetch_skipped, eld,
                   pending_requests, proofMaps, ps, whVars, nextGen,
                   histVars>>

FetchTaskSteps ==
    \/ \E h \in Hashes : TaskStart(h)
    \/ \E found \in BOOLEAN : TaskGetBlock(found)
    \/ \E found \in BOOLEAN : TaskGetWitness(found)
    \/ \E ioOk \in BOOLEAN : TaskSave(ioOk)
    \/ TaskPut
    \/ TaskSend

\* ------------------------------------------------------------ submit_proof
\* tokio::spawn(submit_proof(client, execution_proof)) in submit_proofs
SpawnSubmit(c) ==
    /\ sp[c].pc = "none"
    /\ sp' = [sp EXCEPT ![c].pc = "attempt"]
    /\ UNCHANGED <<envVars, now, cfg, calcVars, ft, proof_cache, storeVars, elVars,
                   pending_requests, proofMaps, proof_rx, ps, whVars, nextGen,
                   histVars>>

\* the sleep before the next attempt that adds one second per retry
backoff_linear(retry_count) == retry_count + 1

\* Duration::from_secs(2u64.pow(retry_count))
backoff(retry_count) == 2 ^ retry_count

\* One call of client.submit_execution_proof: Ok, an error whose text
\* contains "already known", or another error.
SubmitAttempt(c, reply) ==
    /\ sp[c].pc = "attempt"
    /\ sp' = [sp EXCEPT ![c] =
         LET t == [@ EXCEPT !.attempts = @ + 1] IN
         IF reply = "ok" THEN [t EXCEPT !.pc = "done", !.result = "ok"]
         ELSE IF reply = "already known"
              THEN [t EXCEPT !.pc = "done", !.result = "known"]
         ELSE IF t.retry_count >= PROOF_SUBMISSION_MAX_RETRIES
              THEN [t EXCEPT !.pc = "done", !.result = "failed"]
         ELSE [t EXCEPT !.pc = "sleep",
                        !.backoffs = Append(@, backoff(t.retry_count))]]
    /\ UNCHANGED <<envVars, now, cfg, calcVars, ft, proof_cache, storeVars, elVars,
                   pending_requests, proofMaps, proof_rx, ps, whVars, nextGen,
                   histVars>>

\* tokio::time::sleep(backoff) returns and the for loop takes the next
\* retry_count of 0..=PROOF_SUBMISSION_MAX_RETRIES.
SubmitWake(c) ==
    /\ sp[c].pc = "sleep"
    /\ sp' = [sp EXCEPT ![c] =
         IF @.retry_count + 1 <= PROOF_SUBMISSION_MAX_RETRIES
         THEN [@ EXCEPT !.pc = "attempt", !.retry_count = @ + 1]
         ELSE [@ EXCEPT !.pc = "done", !.result = "failed"]]
    /\ UNCHANGED <<envVars, now, cfg, calcVars, ft, proof_cache, storeVars, elVars,
                   pending_requests, proofMaps, proof_rx, ps, whVars, nextGen,
                   histVars>>

SubmitReplies == {"ok", "already known", "error"}

SubmitSteps ==
    \/ \E c \in Clients : SpawnSubmit(c)
    \/ \E c \in Clients, reply \in SubmitReplies : SubmitAttempt(c, reply)
    \/ \E c \in Clients : SubmitWake(c)

\* ------------------------------------------------- Target::union by itself
\* Two Target values are chosen, then a.union(&b) and b.union(&a) are
\* evaluated.
PickTargets(a, b) ==
    /\ tu.pc \in {"none", "done"}
    /\ tu' = [NoUnion EXCEPT !.pc = "picked", !.a = a, !.b = b]
    /\ UNCHANGED <<envVars, now, cfg, pq, pw, bf, lk, sd, taskVars, proof_cache, storeVars, elVars,
                   pending_requests, proofMaps, proof_rx, ps, whVars, nextGen,
                   histVars>>

ApplyUnion ==
    /\ tu.pc = "picked"
    /\ tu' = [tu EXCEPT !.pc = "done", !.ab = union(tu.a, tu.b),
                        !.ba = union(tu.b, tu.a)]
    /\ UNCHANGED <<envVars, now, cfg, pq, pw, bf, lk, sd, taskVars, proof_cache, storeVars, elVars,
                   pending_requests, proofMaps, proof_rx, ps, whVars, nextGen,
                   histVars>>

NextTarget ==
    \/ \E a \in Targets, b \in Targets : PickTargets(a, b)
    \/ ApplyUnion

SpecTarget == Init /\ [][NextTarget]_vars

\* --------------------------------------------------------- BackfillService
\* One tick of BackfillService::run. Head slots come from get_head_slot
\* (HeadErr: the call failed); the messages given to proof_tx.send are
\* listed in bf.out. Which slots have a block with an execution payload is
\* fixed per tick by bf.pattern.
\* get_block_info(slot) returns a block with an execution_block_hash
HasPayload(slot, pattern) ==
    \/ pattern = "all"
    \/ pattern = "even" /\ slot % 2 = 0

\* interval.tick() and get_statuses: a failed source read gives no status,
\* a failed client read leaves that client out.
BackfillTick(source, heads, pattern) ==
    /\ bf.pc = "idle"
    /\ bf' = [IdleBf EXCEPT
                !.pc = "status", !.source = source, !.heads = heads,
                !.pattern = pattern,
                !.todo = IF source = HeadErr THEN <<>>
                         ELSE SelectSeq(ClientOrder, LAMBDA c : heads[c] # HeadErr)]
    /\ UNCHANGED <<envVars, now, cfg, pq, pw, tu, lk, sd, taskVars, proof_cache, storeVars, elVars,
                   pending_requests, proofMaps, proof_rx, ps, whVars, nextGen,
                   histVars>>

\* `for status in &statuses`: gap = head_slot - source_head, backfill when
\* gap < -5; the tick ends (back to the select) after the last status.
BackfillStatus ==
    /\ bf.pc = "status"
    /\ bf' = IF bf.todo = <<>> THEN [bf EXCEPT !.pc = "idle"]
             ELSE LET c == Head(bf.todo)
                      gap == bf.heads[c] - bf.source
                  IN IF gap < 0 - BackfillBehind
                     THEN [bf EXCEPT !.pc = "heads", !.c = c, !.todo = Tail(@)]
                     ELSE [bf EXCEPT !.todo = Tail(@)]
    /\ UNCHANGED <<envVars, now, cfg, pq, pw, tu, lk, sd, taskVars, proof_cache, storeVars, elVars,
                   pending_requests, proofMaps, proof_rx, ps, whVars, nextGen,
                   histVars>>

\* a backfill that asks for every missing slot at once
slots_to_check_uncapped(gap, max_slots) == gap

\* gap.min(max_slots)
slots_to_check(gap, max_slots) == IF gap < max_slots THEN gap ELSE max_slots

\* backfill_proofs reads both heads again; it returns on an error and when
\* the client is not behind.
BackfillHeads(zkvm_head, source_head) ==
    /\ bf.pc = "heads"
    /\ bf' = IF zkvm_head = HeadErr \/ source_head = HeadErr
                \/ zkvm_head >= source_head
             THEN [bf EXCEPT !.pc = "status"]
             ELSE [bf EXCEPT
                     !.pc = "slots",
                     !.zkvm_head[bf.c] = zkvm_head,
                     !.source_head[bf.c] = source_head,
                     !.slot = zkvm_head + 1,
                     !.last = zkvm_head + slots_to_check(source_head - zkvm_head,
                                                         BackfillMaxSlots)]
    /\ UNCHANGED <<envVars, now, cfg, pq, pw, tu, lk, sd, taskVars, proof_cache, storeVars, elVars,
                   pending_requests, proofMaps, proof_rx, ps, whVars, nextGen,
                   histVars>>

\* one iteration of `for slot in (zkvm_head + 1)..=(zkvm_head + slots_to_check)`
BackfillSlot ==
    /\ bf.pc = "slots"
    /\ bf' = IF bf.slot > bf.last THEN [bf EXCEPT !.pc = "status"]
             ELSE IF HasPayload(bf.slot, bf.pattern)
                  THEN [bf EXCEPT !.slot = @ + 1,
                          !.out = Append(@, [slot |-> bf.slot,
                                             tc |-> Specific({bf.c}),
                                             tpt |-> All])]
             ELSE [bf EXCEPT !.slot = @ + 1]
    /\ UNCHANGED <<envVars, now, cfg, pq, pw, tu, lk, sd, taskVars, proof_cache, storeVars, elVars,
                   pending_requests, proofMaps, proof_rx, ps, whVars, nextGen,
                   histVars>>

NextBackfill ==
    \/ \E source \in SourceHeads \cup {HeadErr},
          heads \in [Clients -> ZkHeads \cup {HeadErr}],
          pattern \in PayloadPatterns : BackfillTick(source, heads, pattern)
    \/ BackfillStatus
    \/ \E zkvm_head \in ZkHeads \cup {HeadErr}, source_head \in SourceHeads \cup {HeadErr} :
          BackfillHeads(zkvm_head, source_head)
    \/ BackfillSlot

\* ------------------------------------------------- the locks, one by one
\* The lock operations of each code path in program order. "acq" is
\* lock().await, "rel" the drop of the guard, "await" another suspension
\* point reached while guards are alive.
Acq(l) == [op |-> "acq", lock |-> l]
Rel(l) == [op |-> "rel", lock |-> l]

\* a request_proof that takes the index first
request_proof_gen_ids_first ==
    <<Acq("proof_gen_ids"), Acq("pending_proofs"),
      [op |-> "await", lock |-> "http"],
      Rel("pending_proofs"), Rel("proof_gen_ids")>>

\* request_proof: both guards, held over the POST /prove
request_proof_locks ==
    <<Acq("pending_proofs"), Acq("proof_gen_ids"),
      [op |-> "await", lock |-> "http"],
      Rel("pending_proofs"), Rel("proof_gen_ids")>>

\* cleanup_stale_entries: pending_requests alone, then both maps
cleanup_locks ==
    <<Acq("pending_requests"), Rel("pending_requests"),
      Acq("pending_proofs"), Acq("proof_gen_ids"),
      Rel("proof_gen_ids"), Rel("pending_proofs")>>

\* handle_request_proof's insert into pending_requests
pending_request_locks == <<Acq("pending_requests"), Rel("pending_requests")>>

\* proof_webhook: each guard is a temporary of its own let-else statement
webhook_locks ==
    <<Acq("proof_gen_ids"), Rel("proof_gen_ids"),
      Acq("pending_proofs"), Rel("pending_proofs")>>

LockPath(name) ==
    CASE name = "request_proof" -> request_proof_locks
      [] name = "cleanup" -> cleanup_locks
      [] name = "pending_request" -> pending_request_locks
      [] OTHER -> webhook_locks

\* the code paths a task can enter: the run loop is one task
PathsOf(p) == IF p = "run" THEN {"request_proof", "cleanup", "pending_request"}
              ELSE {"webhook"}

Holder(l) ==
    CASE l = "pending_proofs" -> pp_lock
      [] l = "proof_gen_ids" -> gi_lock
      [] OTHER -> lk.pr

NextOp(p) == LockPath(lk.path[p])[lk.pc[p]]

\* a task enters a code path
LockStart(p, name) ==
    /\ lk.path[p] = "none"
    /\ lk' = [lk EXCEPT !.path[p] = name, !.pc[p] = 1]
    /\ UNCHANGED <<envVars, now, cfg, pq, pw, tu, bf, sd, taskVars, proof_cache, storeVars, elVars,
                   pending_requests, proofMaps, proof_rx, ps, whVars, nextGen,
                   histVars>>

\* a task performs its next operation; lock().await goes on only when the
\* mutex is free
LockStep(p) ==
    /\ lk.path[p] # "none"
    /\ LET o == NextOp(p)
           last == lk.pc[p] = Len(LockPath(lk.path[p]))
           val == IF o.op = "acq" THEN p ELSE "free"
           takes(l) == o.op \in {"acq", "rel"} /\ o.lock = l
       IN /\ o.op = "acq" => Holder(o.lock) = "free"
          /\ pp_lock' = IF takes("pending_proofs") THEN val ELSE pp_lock
          /\ gi_lock' = IF takes("proof_gen_ids") THEN val ELSE gi_lock
          /\ lk' = [lk EXCEPT
                      !.pr = IF takes("pending_requests") THEN val ELSE @,
                      !.path[p] = IF last THEN "none" ELSE @,
                      !.pc[p] = IF last THEN 1 ELSE @ + 1]
    /\ UNCHANGED <<envVars, now, cfg, pq, pw, tu, bf, sd, taskVars, proof_cache, storeVars, elVars,
                   pending_requests, pending_proofs, proof_gen_ids, proof_rx, ps,
                   whVars, nextGen, histVars>>

NextLocks ==
    \/ \E p \in LockProcs, name \in {"request_proof", "cleanup", "pending_request",
                                       "webhook"} :
          name \in PathsOf(p) /\ LockStart(p, name)
    \/ \E p \in LockProcs : LockStep(p)

\* ------------------------------------------------------------ environment
\* ClEventService saves the CL data of the head (an error is only logged)
\* and sends target_clients = All, BackfillService sends Specific({client});
\* both send target_proof_types = All.
RECURSIVE SumOver(_, _)
SumOver(f, S) == IF S = {} THEN 0
                 ELSE LET x == CHOOSE y \in S : TRUE
                      IN f[x] + SumOver(f, S \ {x})
SentTotal == SumOver(sent, Hashes)

SenderTargets == {All} \cup {Specific({c}) : c \in Clients}

SendRequestProof(h, tc) ==
    /\ SentTotal < MaxRequests
    /\ sent' = [sent EXCEPT ![h] = @ + 1]
    /\ HasRoom
    /\ proof_rx' = Sent(RequestProof(h, tc))
    /\ IF tc = All
       THEN \E ioOk \in BOOLEAN :
              /\ cfg.storage \/ ioOk
              /\ save_cl_data(h, ioOk)
       ELSE UNCHANGED <<diskCl, meta>>
    /\ UNCHANGED <<fetched, now, cfg, calcVars, taskVars, proof_cache, diskEl, diskProof, retained,
                   elVars, pending_requests, proofMaps, ps, whVars, nextGen, histVars>>

\* Time passes. Only ProofService::run reads the clock (created_at stamps
\* and elapsed() tests), so it is enough to let it advance right before the
\* steps that read it.
Tick ==
    /\ now + TimeStep <= MaxNow
    /\ ps.pc \in {"idle", "el_avail", "locks", "http"}
    /\ now' = now + TimeStep
    /\ UNCHANGED <<envVars, cfg, calcVars, taskVars, proof_cache, storeVars, elVars, pending_requests,
                   proofMaps, proof_rx, ps, whVars, nextGen, histVars>>

\* handle_request_proof and request_proof, step by step
RequestSteps ==
    \/ RecvRequestProof
    \/ LoadProof
    \/ ElAvail
    \/ Peek
    \/ Locks
    \/ Http
    \/ ItemDone

WebhookSteps ==
    \/ \E w \in 1..NumWebhooks, g \in GenIds \cup {UnknownGen}, err \in BOOLEAN :
          WebhookArrive(w, g, err)
    \/ \E w \in 1..NumWebhooks : WebhookLookup(w)
    \/ \E w \in 1..NumWebhooks : WebhookRemovePending(w)
    \/ \E w \in 1..NumWebhooks : WebhookStore(w)

ElDataSteps ==
    \/ \E h \in Hashes : handle_fetch_data(h)
    \/ FetchDataResume
    \/ \E h \in Hashes : FetchSucceed(h)
    \/ \E h \in Hashes : FetchSend(h)
    \/ \E h \in Hashes : FetchFail(h)
    \/ \E h \in Hashes : JoinNext(h)

Senders == \E h \in Hashes, tc \in SenderTargets : SendRequestProof(h, tc)

\* ------------------------------------- the pending_requests entry by itself
\* An entry of pending_requests (vacant, or a PendingRequest created
\* earlier) and a RequestProof are chosen, then the entry() call of
\* handle_request_proof is evaluated at the present time.
EntrySlots == 1..MaxEntrySlot
StoredRequests ==
    {NoRequest} \cup
    {[slot |-> sl, block_root |-> br, target_clients |-> tc, created_at |-> at] :
       sl \in EntrySlots, br \in EntrySlots, tc \in Targets,
       at \in {0, TimeStep, 2 * TimeStep}}
Requests ==
    {[slot |-> sl, block_root |-> br, target_clients |-> tc] :
       sl \in EntrySlots, br \in EntrySlots, tc \in Targets}

PickEntry(existing, req) ==
    /\ pq.pc \in {"none", "done"}
    /\ existing.created_at <= now
    /\ pq' = [pc |-> "picked", existing |-> existing, req |-> req,
              result |-> NoRequest]
    /\ UNCHANGED <<envVars, now, cfg, pw, tu, bf, lk, sd, taskVars, proof_cache, storeVars,
                   elVars, pending_requests, proofMaps, proof_rx, ps, whVars, nextGen,
                   histVars>>

ApplyEntry ==
    /\ pq.pc = "picked"
    /\ pq' = [pq EXCEPT !.pc = "done",
                        !.result = IF pq.existing = NoRequest
                                   THEN or_insert_with(pq.req)
                                   ELSE and_modify(pq.existing, pq.req)]
    /\ UNCHANGED <<envVars, now, cfg, pw, tu, bf, lk, sd, taskVars, proof_cache, storeVars,
                   elVars, pending_requests, proofMaps, proof_rx, ps, whVars, nextGen,
                   histVars>>

NextEntry ==
    \/ \E existing \in StoredRequests, req \in Requests : PickEntry(existing, req)
    \/ ApplyEntry
    \/ Tick

\* ------------------------------------------ post_webhook of the proof engine
\* The proof engine pushes one ProofResult to the webhook URL. A POST ends
\* within its 10 s timeout with a response status or with a transport error
\* (TransportErr).
TransportErr == 0
WebhookReplies == {200, 204, 301, 400, 404, 500, 503, TransportErr}

\* StatusCode::is_success and StatusCode::is_client_error
is_success(status) == status >= 200 /\ status < 300
is_client_error(status) == status >= 400 /\ status < 500

\* a loop that returns on every response, whatever its status
post_returns_on_response(reply) == reply # TransportErr

\* the arms of the match that return from post_webhook
post_returns(reply) ==
    /\ reply # TransportErr
    /\ is_success(reply) \/ is_client_error(reply)

\* Duration::from_secs(2u64.pow(attempt - 1))
webhook_delay(attempt) == 2 ^ (attempt - 1)

PostVars == <<envVars, now, cfg, pq, tu, bf, lk, sd, taskVars, proof_cache, storeVars,
              elVars, pending_requests, proofMaps, proof_rx, ps, whVars, nextGen,
              histVars>>

\* post_webhook is called: the for loop starts with attempt 1
PostWebhookStart ==
    /\ pw.pc = "none"
    /\ pw' = [pw EXCEPT !.pc = "post", !.attempt = 1]
    /\ UNCHANGED PostVars

\* one send().await and its match: return, go to the sleep while
\* attempt < 3, or leave the loop after the last attempt
PostWebhookSend(reply) ==
    /\ pw.pc = "post"
    /\ pw' = [pw EXCEPT !.replies = Append(@, reply),
                        !.pc = IF post_returns(reply) THEN "returned"
                               ELSE IF pw.attempt < 3 THEN "sleep"
                               ELSE IF pw.attempt < MAX_ATTEMPT THEN "post"
                               ELSE "gave up",
                        !.attempt = IF ~post_returns(reply) /\ pw.attempt >= 3
                                       /\ pw.attempt < MAX_ATTEMPT
                                    THEN @ + 1 ELSE @]
    /\ UNCHANGED PostVars

\* the sleep between two attempts has run and the loop goes on
PostWebhookWake ==
    /\ pw.pc = "sleep"
    /\ pw' = [pw EXCEPT !.slept = Append(@, webhook_delay(pw.attempt)),
                        !.attempt = IF pw.attempt < MAX_ATTEMPT THEN @ + 1 ELSE @,
                        !.pc = IF pw.attempt < MAX_ATTEMPT THEN "post" ELSE "gave up"]
    /\ UNCHANGED PostVars

NextPostWebhook ==
    \/ PostWebhookStart
    \/ \E reply \in WebhookReplies : PostWebhookSend(reply)
    \/ PostWebhookWake

\* ---------------------------------------------------------------- shutdown
\* shutdown_token.cancel()
Cancel ==
    /\ ~sd.cancelled
    /\ sd' = [sd EXCEPT !.cancelled = TRUE]
    /\ UNCHANGED <<envVars, now, cfg, pq, pw, tu, bf, lk, taskVars, proof_cache, storeVars, elVars,
                   pending_requests, proofMaps, proof_rx, ps, whVars, nextGen,
                   histVars>>

\* ProofService::run at its select with the token cancelled: break; the
\* receiver is dropped with the function's frame.
ProofServiceExit ==
    /\ sd.cancelled
    /\ ps.pc = "idle"
    /\ ps' = [ps EXCEPT !.pc = "exited"]
    /\ proof_rx' = <<>>
    /\ UNCHANGED <<envVars, now, cfg, calcVars, taskVars, proof_cache, storeVars, elVars,
                   pending_requests, proofMaps, whVars, nextGen, histVars>>

\* ElDataService::run at its select with the token cancelled:
\* fetch_tasks.abort_all() and break. An aborted task is dropped at its
\* await, and its el_data_cache guard with it.
ElDataServiceExit ==
    /\ sd.cancelled
    /\ eld.pc = "idle"
    /\ eld' = [eld EXCEPT !.pc = "exited"]
    /\ fetch_tasks' = [h \in Hashes |-> [st \in TaskStates |-> 0]]
    /\ ft' = IF ft.pc \in {"none", "returned"} THEN ft ELSE [ft EXCEPT !.pc = "aborted"]
    /\ el_lock' = "free"
    /\ UNCHANGED <<envVars, now, cfg, calcVars, sp, proof_cache, storeVars, el_data_cache,
                   in_flight, fetch_skipped, pending_requests, proofMaps, proof_rx,
                   ps, whVars, nextGen, histVars>>

\* ClEventService: a head event taken from the stream, handle_head run to
\* its end.
HandleHead(h) ==
    /\ sd.cl = "stream"
    /\ ~sd.cancelled
    /\ SendRequestProof(h, All)

\* handle_head reaches proof_tx.send(message).await and the channel is full
HandleHeadWaits(h) ==
    /\ sd.cl = "stream"
    /\ ~sd.cancelled
    /\ SentTotal < MaxRequests
    /\ ~HasRoom
    /\ sent' = [sent EXCEPT ![h] = @ + 1]
    /\ \E ioOk \in BOOLEAN :
         /\ cfg.storage \/ ioOk
         /\ save_cl_data(h, ioOk)
    /\ sd' = [sd EXCEPT !.cl = "send", !.clh = h]
    /\ UNCHANGED <<fetched, now, cfg, pq, pw, tu, bf, lk, taskVars, proof_cache, diskEl, diskProof,
                   retained, elVars, pending_requests, proofMaps, proof_rx, ps, whVars,
                   nextGen, histVars>>

\* the waiting send of handle_head returns
HeadSendDone ==
    /\ sd.cl = "send"
    /\ HasRoom
    /\ proof_rx' = Sent(RequestProof(sd.clh, All))
    /\ sd' = [sd EXCEPT !.cl = "stream"]
    /\ UNCHANGED <<envVars, now, cfg, pq, pw, tu, bf, lk, taskVars, proof_cache, storeVars, elVars,
                   pending_requests, proofMaps, ps, whVars, nextGen, histVars>>

\* a step of an event-service or timer loop that touches nothing but the loop
LoopStep(field, from, to) ==
    /\ sd[field] \in from
    /\ sd' = [sd EXCEPT ![field] = to]
    /\ UNCHANGED <<envVars, now, cfg, pq, pw, tu, bf, lk, taskVars, proof_cache, storeVars, elVars,
                   pending_requests, proofMaps, proof_rx, ps, whVars, nextGen,
                   histVars>>

\* a step of an event-service loop that changes several of its fields
LoopSet(new) ==
    /\ sd' = new
    /\ UNCHANGED <<envVars, now, cfg, pq, pw, tu, bf, lk, taskVars, proof_cache, storeVars, elVars,
                   pending_requests, proofMaps, proof_rx, ps, whVars, nextGen,
                   histVars>>

\* What stream.next() of the CL event stream gives besides a head event: a
\* block event, Error::Parse, an Error::Sse whose text holds
\* "ConnectionRefused", any other Error::Sse, or the end of the stream.
ClResults == {"block", "parse", "sse", "refused", "none"}

cl_breaks_any_error(result) == result \in {"parse", "sse", "refused", "none"}

\* the arms of the inner match that leave the inner loop
cl_breaks(result) == result \in {"refused", "none"}

\* ClEventService::run, inner loop: cancelled() is not ready, stream.next()
\* gives a result; the loop is left for the reconnect delay or reads on.
ClStreamNext(result) ==
    /\ ~sd.cancelled
    /\ sd.cl = "stream"
    /\ LoopSet([sd EXCEPT !.clr = result, !.cld = 0,
                          !.cl = IF cl_breaks(result) THEN "delay" ELSE "stream"])

\* sleep(RECONNECT_DELAY) runs to its end
ClSleep ==
    /\ sd.cl = "delay"
    /\ sd.cld = 0
    /\ LoopSet([sd EXCEPT !.cld = CL_RECONNECT_DELAY])

\* the sleep arm of the select of the delay is taken and the outer loop
\* calls subscribe_cl_events, which builds a stream without polling it
ClReconnect ==
    /\ sd.cl = "delay"
    /\ sd.cld = CL_RECONNECT_DELAY
    /\ LoopSet([sd EXCEPT !.cl = "subscribed"])

\* the first stream.next() on the new stream, taken by the biased select
\* only when cancelled() is not ready
ClConnect ==
    /\ ~sd.cancelled
    /\ sd.cl = "subscribed"
    /\ LoopSet([sd EXCEPT !.cl = "stream", !.clr = "ok"])

\* cancelled() wins the inner (biased) select or the select of the delay
ClEventExit == sd.cancelled /\ LoopStep("cl", {"stream", "subscribed", "delay"}, "exited")

\* What stream.next() of the newHeads stream gives besides a header
ElResults == {"error", "none"}

el_breaks_on_error(result) == result \in {"error", "none"}

\* the arm of the inner match that leaves the inner loop
el_breaks(result) == result = "none"

\* ElEventService::run. subscribe_blocks returns a stream or fails; after a
\* failure the select of the retry delay finds cancelled() ready when the
\* token was cancelled before.
ElSubscribe(ok) ==
    /\ sd.el = "subscribe"
    /\ LoopSet([sd EXCEPT !.els = 0, !.elr = "ok",
                          !.el = IF ok THEN "stream"
                                 ELSE IF sd.cancelled THEN "exited" ELSE "delay"])

\* inner loop: an error is logged, the end of the stream leaves the inner
\* loop and the outer loop goes on to subscribe_blocks
ElStreamNext(result) ==
    /\ ~sd.cancelled
    /\ sd.el = "stream"
    /\ LoopSet([sd EXCEPT !.elr = result,
                          !.el = IF el_breaks(result) THEN "subscribe" ELSE "stream"])

\* sleep(RECONNECT_DELAY) after a failed subscribe_blocks runs to its end
ElSleep ==
    /\ sd.el = "delay"
    /\ sd.els = 0
    /\ LoopSet([sd EXCEPT !.els = EL_RECONNECT_DELAY])

ElReconnect ==
    /\ sd.el = "delay"
    /\ sd.els = EL_RECONNECT_DELAY
    /\ LoopSet([sd EXCEPT !.el = "subscribe"])

ElEventExit == sd.cancelled /\ LoopStep("el", {"stream", "delay"}, "exited")

\* BackfillService::run: a tick of the interval runs its handler to the end;
\* cancelled() is looked at when the loop is back at its select.
BackfillLoopTick == ~sd.cancelled /\ LoopStep("bf", {"idle"}, "tick")
BackfillLoopBack == LoopStep("bf", {"tick"}, "idle")
BackfillExit == sd.cancelled /\ LoopStep("bf", {"idle"}, "exited")

EventLoopSteps ==
    \/ \E result \in ClResults : ClStreamNext(result)
    \/ ClSleep
    \/ ClReconnect
    \/ ClConnect
    \/ \E ok \in BOOLEAN : ElSubscribe(ok)
    \/ \E result \in ElResults : ElStreamNext(result)
    \/ ElSleep
    \/ ElReconnect
    \/ BackfillLoopTick
    \/ BackfillLoopBack

\* the reconnect and timer loops, which share no state with the others
NextLoops ==
    \/ Cancel
    \/ EventLoopSteps
    \/ ClEventExit
    \/ ElEventExit
    \/ BackfillExit

\* the loops that share the ProofService channel and the EL-data LRU
NextShutdown ==
    \/ RequestSteps
    \/ RecvBlockDataReady
    \/ ElDataSteps
    \/ \E h \in Hashes : HandleHead(h)
    \/ \E h \in Hashes : HandleHeadWaits(h)
    \/ HeadSendDone
    \/ Cancel
    \/ ProofServiceExit
    \/ ElDataServiceExit
    \/ ClEventExit

\* The whole relayer.
Next ==
    \/ RequestSteps
    \/ RecvBlockDataReady
    \/ cleanup_stale_entries
    \/ WebhookSteps
    \/ ElDataSteps
    \/ SubmitSteps
    \/ FetchTaskSteps
    \/ NextTarget
    \/ NextBackfill
    \/ NextLocks
    \/ NextShutdown
    \/ NextLoops
    \/ NextEntry
    \/ NextPostWebhook
    \/ Senders
    \/ Tick

Spec == Init /\ [][Next]_vars

\* ProofService with its webhook and its clock, while ElDataService is
\* quiet: the data of h1 was fetched earlier (LRU and disk), h2 is unknown.
InitProof ==
    /\ InitCommon
    /\ cfg = [storage |-> TRUE, retain |-> Retain]
    /\ el_data_cache = <<"h1">>
    /\ diskEl = {"h1"}
    /\ diskProof = {}
    /\ retained = <<"h1">>
    /\ InitMeta

NextProof ==
    \/ RequestSteps
    \/ cleanup_stale_entries
    \/ WebhookSteps
    \/ Senders
    \/ Tick

SpecProof == InitProof /\ [][NextProof]_vars

\* ElDataService and the ProofService message loop from construction on
\* (with an empty output directory, or restarted over one that holds h1),
\* before any webhook arrives and within one timeout period.
NextData ==
    \/ RequestSteps
    \/ RecvBlockDataReady
    \/ ElDataSteps
    \/ Senders

InitData ==
    /\ InitCommon
    /\ el_data_cache = <<>>
    /\ retained = <<>>
    /\ \/ /\ cfg \in {NoStorage, [storage |-> TRUE, retain |-> Retain]}
          /\ diskEl = {}
          /\ diskProof = {}
       \/ /\ cfg = [storage |-> TRUE, retain |-> Retain]
          /\ diskEl = {"h1"}
          /\ diskProof = {<<"h1", "t1">>}
    /\ InitMeta

SpecData == InitData /\ [][NextData]_vars

\* The submit_proof tasks of one proof, one per CL client, each scheduled
\* again and again by the runtime until it returns.
SpecSubmit ==
    /\ Init
    /\ [][SubmitSteps]_vars
    /\ \A c \in Clients :
          /\ WF_vars(\E reply \in SubmitReplies : SubmitAttempt(c, reply))
          /\ WF_vars(SubmitWake(c))

\* ElDataService, its fetch tasks and the ProofService message loop without
\* storage, every task scheduled again and again: the ProofService loop goes
\* on whenever it can, a fetch task ends one way or the other, a waiting send
\* completes once the channel has room, and the ElDataService loop takes
\* the next ready branch of its select. Arrivals of messages are not forced.
InitFetch ==
    /\ InitCommon
    /\ cfg = NoStorage
    /\ el_data_cache = <<>>
    /\ retained = <<>>
    /\ diskEl = {}
    /\ diskProof = {}
    /\ InitMeta

SpecFetch ==
    /\ InitFetch
    /\ [][NextData]_vars
    /\ WF_vars(RequestSteps \/ RecvBlockDataReady)
    /\ WF_vars(FetchDataResume \/ \E h \in Hashes : JoinNext(h))
    /\ \A h \in Hashes :
          /\ WF_vars(FetchSucceed(h) \/ FetchFail(h))
          /\ WF_vars(FetchSend(h))

\* ProofService, ElDataService with its fetch tasks and ClEventService in its
\* stream loop, without storage, up to and after the cancellation of the
\* shutdown token. Every task is scheduled again and again: a loop at its
\* select takes a ready branch, an await that can return does.
SpecShutdown ==
    /\ InitFetch
    /\ [][NextShutdown]_vars
    /\ WF_vars(RequestSteps \/ RecvBlockDataReady \/ ProofServiceExit)
    /\ WF_vars(FetchDataResume \/ ElDataServiceExit \/ \E h \in Hashes : JoinNext(h))
    /\ \A h \in Hashes :
          /\ WF_vars(FetchSucceed(h) \/ FetchFail(h))
          /\ WF_vars(FetchSend(h))
    /\ WF_vars(HeadSendDone)
    /\ WF_vars(ClEventExit)

\* The reconnect loops of the two event services and the timer loop of
\* BackfillService, scheduled again and again.
SpecLoops ==
    /\ InitFetch
    /\ [][NextLoops]_vars
    /\ WF_vars(ClEventExit \/ ClConnect)
    /\ WF_vars(ElEventExit \/ \E ok \in BOOLEAN : ElSubscribe(ok))
    /\ WF_vars(BackfillExit \/ BackfillLoopBack)

\* One fetch task after the other with the ProofService message loop as the
\* receiver of its notifications.
NextTask ==
    \/ FetchTaskSteps
    \/ RequestSteps
    \/ RecvBlockDataReady
    \/ Senders

SpecTask == InitData /\ [][NextTask]_vars

\* ------------------------------------------------- BlockStorage on its own
\* The three save operations called in any order on a BlockStorage built
\* over an empty chain directory, for retention limits 1..MaxRetain.
\* VecDeque::with_capacity(retain) has capacity() = retain in every std that
\* builds this code, so the deque is full at retain entries.
StoreElData(h) ==
    /\ \E ioOk \in BOOLEAN : save_el_data(h, ioOk)
    /\ UNCHANGED <<envVars, now, cfg, calcVars, taskVars, proof_cache, elVars, pending_requests,
                   proofMaps, proof_rx, ps, whVars, nextGen, histVars>>

StoreClData(h) ==
    /\ \E ioOk \in BOOLEAN : save_cl_data(h, ioOk)
    /\ UNCHANGED <<envVars, now, cfg, calcVars, taskVars, proof_cache, diskEl, diskProof, retained,
                   elVars, pending_requests, proofMaps, proof_rx, ps, whVars, nextGen,
                   histVars>>

StoreProof(k) ==
    /\ \E ioOk \in BOOLEAN : save_proof(k, ioOk)
    /\ UNCHANGED <<envVars, now, cfg, calcVars, taskVars, proof_cache, diskEl, retained, diskCl, meta,
                   elVars, pending_requests, proofMaps, proof_rx, ps, whVars, nextGen,
                   histVars>>

InitStorage ==
    /\ InitCommon
    /\ cfg \in {[storage |-> TRUE, retain |-> r] : r \in 1..MaxRetain}
    /\ el_data_cache = <<>>
    /\ diskEl = {}
    /\ diskProof = {}
    /\ retained = <<>>
    /\ InitMeta

NextSaveEl == \E h \in StoreHashes : StoreElData(h)

SpecSaveEl == InitStorage /\ [][NextSaveEl]_vars

NextStorage ==
    \/ \E h \in StoreHashes : StoreElData(h)
    \/ \E h \in StoreHashes : StoreClData(h)
    \/ \E h \in StoreHashes : StoreProof(<<h, ProofTypeOrder[1]>>)

SpecStorage == InitStorage /\ [][NextStorage]_vars

\* The entry() call of handle_request_proof on its own, at any time.
SpecEntry == InitFetch /\ [][NextEntry]_vars

\* One post_webhook call of the proof engine: the task is scheduled again
\* and again, every POST ends within its timeout and every sleep returns.
SpecPostWebhook ==
    /\ InitFetch
    /\ [][NextPostWebhook]_vars
    /\ WF_vars(NextPostWebhook)

\* The lock operations of the run loop and two webhook handlers.
SpecLocks == InitFetch /\ [][NextLocks]_vars

\* BackfillService alone, in a relayer without storage.
SpecBackfill == InitFetch /\ [][NextBackfill]_vars

\* ------------------------------------------------------------- properties
\* request_proof sends POST /prove in this step.
PostStep == ps.pc = "locks" /\ ps'.pc = "http"
\* The webhook handler w does its proof_gen_ids lookup in this step.
LookupStep(w) == wh[w].pc = "lookup" /\ wh'[w].pc # "lookup"

\* C1: in every state in which no task holds the pending_proofs or the
\* proof_gen_ids lock, the two maps agree: pending_proofs maps k to a
\* PendingProof with id g exactly when proof_gen_ids maps g to k.
C1_IndicesAgree ==
    (pp_lock = "free" /\ gi_lock = "free") =>
        /\ \A k \in DOMAIN pending_proofs :
              /\ pending_proofs[k].proof_gen_id \in DOMAIN proof_gen_ids
              /\ proof_gen_ids[pending_proofs[k].proof_gen_id] = k
        /\ \A g \in DOMAIN proof_gen_ids :
              /\ proof_gen_ids[g] \in DOMAIN pending_proofs
              /\ pending_proofs[proof_gen_ids[g]].proof_gen_id = g

\* C2: request_proof sends POST /prove for k only when pending_proofs has no
\* entry for k or the entry is at least 300 s old; a request that meets a
\* younger entry sends nothing and changes no state.
C2_SubmitOnlyWhenAbsentOrStale ==
    [][(ps.pc = "locks" /\ ps' # ps) =>
         LET young == /\ CurKey \in DOMAIN pending_proofs
                      /\ now - pending_proofs[CurKey].created_at
                            < PENDING_PROOF_TIMEOUT
         IN /\ PostStep => ~young
            /\ young =>
                 /\ ~PostStep
                 /\ "post" \notin ps'.out
                 /\ UNCHANGED <<pending_proofs, proof_gen_ids, pending_requests,
                                proof_cache, el_data_cache, diskEl, diskProof,
                                retained, nextGen, lastPost, submitted>>]_vars

\* C2 witness: a request for k was dropped because a PendingProof for k
\* younger than 300 s is recorded.
C2_Witness ==
    /\ ps.pc = "item_done"
    /\ "skip" \in ps.out
    /\ CurKey \in DOMAIN pending_proofs
    /\ now - pending_proofs[CurKey].created_at < PENDING_PROOF_TIMEOUT

\* C3 as stated: any two POST /prove submissions for the same key are at
\* least 300 s apart, whatever happens in between.
C3_AlwaysSpaced ==
    [][(PostStep /\ lastPost[CurKey] >= 0) =>
          now - lastPost[CurKey] >= PENDING_PROOF_TIMEOUT]_vars

\* C3 amended: a POST /prove for k comes at least 300 s after the POST of the
\* job whose PendingProof is recorded for k at that moment.
C3_SpacedWhileRecorded ==
    [][(PostStep /\ CurKey \in DOMAIN pending_proofs) =>
          now - pending_proofs[CurKey].posted_at >= PENDING_PROOF_TIMEOUT]_vars

\* C3 witness: a second POST /prove for k is under way while the stale
\* PendingProof of the first is still recorded.
C3_Witness ==
    /\ ps.pc = "http"
    /\ CurKey \in DOMAIN pending_proofs
    /\ pending_proofs[CurKey].posted_at >= 0
    /\ lastPost[CurKey] - pending_proofs[CurKey].posted_at >= PENDING_PROOF_TIMEOUT

\* C4: at most one fetch task per block hash is outstanding, an outstanding
\* task's hash is in in_flight, and a FetchData for a hash in in_flight
\* spawns nothing.
C4_OneFetchPerHash ==
    [][\A h \in Hashes :
         /\ fetch_tasks'[h]["running"] + fetch_tasks'[h]["sending"]
               + fetch_tasks'[h]["finished"] + fetch_tasks'[h]["failed"] <= 1
         /\ (fetch_tasks'[h]["running"] + fetch_tasks'[h]["sending"]
               + fetch_tasks'[h]["finished"] + fetch_tasks'[h]["failed"] > 0)
               => h \in in_flight'
         /\ h \in in_flight =>
               fetch_tasks'[h]["running"] <= fetch_tasks[h]["running"]]_vars

\* C4 witness: a FetchData for h was skipped because h was in flight, and
\* the one task for h is still running.
C4_Witness ==
    \E h \in Hashes :
        /\ h \in fetch_skipped
        /\ h \in in_flight
        /\ fetch_tasks[h]["running"] = 1

\* C5: POST /prove is never sent for a key whose Proof is in proof_cache or
\* on disk at that moment.
C5_NoSubmitWhenStored ==
    [][PostStep => (~InSeq(proof_cache, CurKey) /\ CurKey \notin diskProof)]_vars

\* C6: when BlockDataReady is handled, each PendingRequest taken from
\* pending_requests ends with exactly one of: the stored proof submitted to
\* its clients, or POST /prove sent for it.
C6_EachPendingServed ==
    (ps.from = "bdr" /\ ps.pc = "item_done") =>
        (("deliver" \in ps.out) # ("post" \in ps.out))

\* C7: once the one RequestProof for a block and every BlockDataReady for it
\* have been handled and nothing is pending for it, each proof type saw
\* exactly one POST /prove or stored-proof delivery, whichever message came
\* first.
C7_OrderIndependent ==
    \A h \in Hashes :
        (/\ sent[h] = 1
         /\ ps.pc = "idle"
         /\ \A i \in 1..Len(proof_rx) : proof_rx[i].h # h
         /\ h \notin DOMAIN pending_requests)
        => \A t \in ProofTypes : outcomes[<<h, t>>] = 1

\* C8: a RequestProof for (h, t) that finds no EL data leaves exactly one
\* PendingRequest for the pair: the request's targets when there was none,
\* otherwise the Target union of the recorded and the new targets (All if
\* either is All), with created_at and every other entry kept.
C8_PendingRequestsMerge ==
    [][(ps.pc = "el_avail" /\ ps'.pc = "item_done") =>
         /\ ps.h \in DOMAIN pending_requests'
         /\ CurType \in DOMAIN pending_requests'[ps.h]
         /\ IF ps.h \in DOMAIN pending_requests
               /\ CurType \in DOMAIN pending_requests[ps.h]
            THEN /\ pending_requests'[ps.h][CurType].target_clients.all
                      = (pending_requests[ps.h][CurType].target_clients.all
                           \/ ps.tc.all)
                 /\ \A c \in Clients :
                      contains(pending_requests'[ps.h][CurType].target_clients, c)
                        <=> (\/ contains(pending_requests[ps.h][CurType]
                                            .target_clients, c)
                             \/ contains(ps.tc, c))
                 /\ pending_requests'[ps.h][CurType].created_at
                      = pending_requests[ps.h][CurType].created_at
            ELSE pending_requests'[ps.h][CurType].target_clients = ps.tc
         /\ \A h \in (DOMAIN pending_requests) \ {ps.h} :
              /\ h \in DOMAIN pending_requests'
              /\ pending_requests'[h] = pending_requests[h]]_vars

\* C8 witness: requests for c1 and for c2 were merged into one PendingRequest.
C8_Witness ==
    \E h \in DOMAIN pending_requests :
        \E t \in DOMAIN pending_requests[h] :
            pending_requests[h][t].target_clients = Specific({"c1", "c2"})

\* C9: of all deliveries of one proof_gen_id at most one gets past the
\* proof_gen_ids lookup; every later one is answered 400 and changes
\* nothing; no client gets more than one submission per job.
C9_WebhookOnce ==
    [][/\ \A g \in GenIds :
            /\ whPassed'[g] <= 1
            /\ \A c \in Clients : submitted'[g][c] <= 1
       /\ \A w \in 1..NumWebhooks :
            (LookupStep(w) /\ wh[w].g \in GenIds /\ whPassed[wh[w].g] >= 1) =>
                /\ response' = [g |-> wh[w].g, code |-> 400]
                /\ wh'[w].pc = "idle"
                /\ UNCHANGED <<submitted, proof_cache, diskProof, pending_proofs,
                               proof_gen_ids, whPassed>>]_vars

\* C9 witness: one delivery of job g was processed and a later one of the
\* same id was answered 400.
C9_Witness ==
    \E g \in GenIds :
        /\ whPassed[g] = 1
        /\ response = [g |-> g, code |-> 400]

\* C10: a webhook delivery whose id is not in proof_gen_ids is answered 400
\* and changes none of the maps, caches or files, and spawns no submission.
C10_UnknownIdRejected ==
    [][\A w \in 1..NumWebhooks :
         (LookupStep(w) /\ wh[w].g \notin DOMAIN proof_gen_ids) =>
             /\ response'.code = 400
             /\ response'.g = wh[w].g
             /\ UNCHANGED <<proof_gen_ids, pending_proofs, pending_requests,
                            proof_cache, el_data_cache, diskEl, diskProof,
                            retained, submitted>>]_vars

\* C10 witness: a delivery with an id the proof engine never issued was
\* answered 400.
C10_Witness == response = [g |-> UnknownGen, code |-> 400]

\* The webhook handler w leaves the pending_proofs removal in this step.
RemovePendingStep(w) == wh[w].pc = "remove_pending" /\ wh'[w].pc # "remove_pending"
\* The webhook handler w stores the proof and spawns the submissions.
StoreStep(w) == wh[w].pc = "store" /\ wh'[w].pc # "store"

\* C11: a webhook with an error field whose proof_gen_id was in
\* proof_gen_ids is answered 200, leaves neither a PendingProof for the key
\* nor the index entry of the id, stores no proof in proof_cache or on disk
\* and starts no CL submission.
C11_ErrorWebhook ==
    [][\A w \in 1..NumWebhooks :
         (RemovePendingStep(w) /\ wh[w].err) =>
             /\ response' = [g |-> wh[w].g, code |-> 200]
             /\ wh[w].key \notin DOMAIN pending_proofs'
             /\ wh[w].g \notin DOMAIN proof_gen_ids'
             /\ UNCHANGED <<proof_cache, diskProof, submitted>>]_vars

\* C12: a webhook without error whose proof_gen_id was in proof_gen_ids goes
\* on to store the proof: the key is in proof_cache afterwards and one
\* submission is started for exactly the clients that the PendingProof's
\* target_clients contains, whether or not the save to disk succeeds.
C12_ProofStoredAndSubmitted ==
    [][\A w \in 1..NumWebhooks :
         ~wh[w].err =>
             /\ RemovePendingStep(w) => wh'[w].pc = "store"
             /\ StoreStep(w) =>
                  /\ response' = [g |-> wh[w].g, code |-> 200]
                  /\ InSeq(proof_cache', wh[w].key)
                  /\ \A c \in Clients :
                       submitted'[wh[w].g][c] - submitted[wh[w].g][c]
                         = IF contains(wh[w].tc, c) THEN 1 ELSE 0]_vars

FetchCheckStep ==
    \/ eld.pc = "idle" /\ fetched' # fetched /\ el_lock = "free"
    \/ eld.pc = "check" /\ eld' # eld

\* C14: when handle_fetch_data finds the data of h in the EL-data LRU or on
\* disk, it sends BlockDataReady{h} (at once, or as soon as the channel has
\* room), spawns no fetch task and leaves in_flight as it was; otherwise it
\* sends nothing.
C14_AvailableDataAnnounced ==
    [][/\ FetchCheckStep =>
            \E h \in Hashes :
                /\ eld.pc = "check" => h = eld.h
                /\ IF InSeq(el_data_cache, h) \/ (cfg.storage /\ h \in diskEl)
                   THEN /\ UNCHANGED <<fetch_tasks, in_flight>>
                        /\ \/ proof_rx' = Append(proof_rx, BlockDataReady(h))
                           \/ /\ Len(proof_rx) >= ChannelCap
                              /\ eld' = [pc |-> "send", h |-> h]
                              /\ UNCHANGED proof_rx
                   ELSE /\ in_flight' = in_flight \cup {h}
                        /\ UNCHANGED proof_rx
       /\ (eld.pc = "send" /\ eld' # eld) =>
            /\ proof_rx' = Append(proof_rx, BlockDataReady(eld.h))
            /\ UNCHANGED <<fetch_tasks, in_flight>>]_vars

\* C14 witness: h1 was on disk from the start and never fetched, and a
\* FetchData{h1} was answered with BlockDataReady{h1}.
C14_Witness ==
    /\ cfg.storage
    /\ diskEl = {"h1"}
    /\ retained = <<>>
    /\ \E i \in 1..Len(proof_rx) : proof_rx[i] = BlockDataReady("h1")
    /\ "h1" \notin in_flight
    /\ \A st \in TaskStates : fetch_tasks["h1"][st] = 0

\* a fetch task of h returns without having found block and witness
FetchFailStep(h) == fetch_tasks'[h]["failed"] > fetch_tasks[h]["failed"]

\* C15: when no endpoint returns both block and witness, the fetch task sends
\* no BlockDataReady, its hash is eventually removed from in_flight, and a
\* FetchData for a hash that is not in in_flight and whose data is not
\* available spawns a new fetch task.
C15_FailedFetchLeavesInFlight ==
    /\ [][\A h \in Hashes : FetchFailStep(h) => UNCHANGED <<proof_rx, in_flight>>]_vars
    /\ [][FetchCheckStep =>
            \A h \in Hashes :
               (h \notin in_flight /\ h \in in_flight') =>
                  fetch_tasks'[h]["running"] = fetch_tasks[h]["running"] + 1]_vars
    /\ \A h \in Hashes : (fetch_tasks[h]["failed"] > 0) ~> (h \notin in_flight)

\* C15 witness: a fetch of h1 failed, h1 left in_flight, and a later
\* FetchData{h1} spawned a second fetch task.
C15_Witness ==
    /\ fetched >= 2
    /\ "h1" \in in_flight
    /\ fetch_tasks["h1"]["running"] = 1
    /\ fetch_tasks["h1"]["failed"] = 0
    /\ fetch_tasks["h1"]["finished"] = 0
    /\ fetch_tasks["h2"] = [st \in TaskStates |-> 0]
    /\ ~InSeq(el_data_cache, "h1")
    /\ Len(proof_rx) = 0
    /\ ps.pc = "idle"
    /\ SentTotal = 0

\* the effects of a fetch task that found block and witness, in order
TaskEffects == IF cfg.storage THEN <<"save", "put", "send">> ELSE <<"put", "send">>

\* C16: a fetch task asks the endpoints in their configured order and goes on
\* with the first one that returns block and witness; with that result it
\* calls save_el_data (when storage is configured), then puts the data into
\* the EL-data LRU, then sends exactly one BlockDataReady, and the data is in
\* the LRU at the moment the notification is sent. A task that found no such
\* endpoint has saved, cached and sent nothing.
C16_FetchTaskOrder ==
    /\ [](ft.pc \in {"save", "put", "send", "returned"} =>
            /\ Len(ft.seen) = ft.i
            /\ ft.seen[ft.i] = "both"
            /\ \A j \in 1..(ft.i - 1) : ft.seen[j] # "both")
    /\ [](ft.pc = "failed" =>
            /\ Len(ft.seen) = NumEndpoints
            /\ \A j \in 1..NumEndpoints : ft.seen[j] # "both"
            /\ ft.log = <<>>)
    /\ [](ft.log = SubSeq(TaskEffects, 1, Len(ft.log)))
    /\ [](ft.pc = "returned" => ft.log = TaskEffects)
    /\ [](ft.pc \in {"none", "block", "witness", "save"} => ft.log = <<>>)
    /\ [][(Len(proof_rx') > Len(proof_rx)
            /\ proof_rx'[Len(proof_rx')].type = "BlockDataReady") =>
              /\ proof_rx' = Append(proof_rx, BlockDataReady(ft.h))
              /\ InSeq(el_data_cache, ft.h)
              /\ ft.pc = "send" /\ ft'.pc = "returned"]_vars

\* C16 witness: the first endpoint had no witness, the second had both; the
\* task saved, cached and notified, and the data is on disk and in the LRU.
C16_Witness ==
    /\ ft.pc = "returned"
    /\ ft.seen = <<"no witness", "both">>
    /\ ft.log = <<"save", "put", "send">>
    /\ ft.h \in diskEl
    /\ InSeq(el_data_cache, ft.h)
    /\ \E i \in 1..Len(proof_rx) : proof_rx[i] = BlockDataReady(ft.h)

\* handle_request_proof / handle_block_data_ready run load_proof in this step
LoadProofStep == ps.pc = "load_proof" /\ ps' # ps
\* handle_request_proof runs is_el_data_available in this step
ElAvailStep == ps.pc = "el_avail" /\ ps' # ps

\* C17: a lookup that misses the LRU and finds the item on disk leaves the
\* item in the LRU (load_proof for a ProofKey; is_el_data_available for a
\* block hash, called by ProofService and by ElDataService), and a lookup of
\* an item that is in the LRU succeeds whatever the disk holds.
C17_DiskHitFillsCache ==
    /\ [][LoadProofStep =>
            /\ (cfg.storage /\ CurKey \in diskProof) => InSeq(proof_cache', CurKey)
            /\ InSeq(proof_cache, CurKey) =>
                  /\ InSeq(proof_cache', CurKey)
                  /\ "deliver" \in ps'.out]_vars
    /\ [][ElAvailStep =>
            /\ (cfg.storage /\ ps.h \in diskEl) => InSeq(el_data_cache', ps.h)
            /\ InSeq(el_data_cache, ps.h) =>
                  /\ el_data_cache' = el_data_cache
                  /\ ps'.pc = "peek"]_vars
    /\ [][FetchCheckStep =>
            /\ \A h \in Hashes :
                  (\/ proof_rx' = Append(proof_rx, BlockDataReady(h))
                   \/ eld' = [pc |-> "send", h |-> h])
                  => InSeq(el_data_cache', h)
            /\ (eld.pc = "check" /\ cfg.storage /\ eld.h \in diskEl)
                  => InSeq(el_data_cache', eld.h)]_vars

\* C17 witness: after a restart over a directory that holds the data and the
\* proof of h1, nothing was fetched or saved, the proof and the data of h1
\* are in their LRUs, and two requests for h1 were answered with the proof.
C17_Witness ==
    /\ cfg.storage
    /\ retained = <<>>
    /\ \A h \in Hashes, st \in TaskStates : fetch_tasks[h][st] = 0
    /\ InSeq(proof_cache, <<"h1", "t1">>)
    /\ InSeq(el_data_cache, "h1")
    /\ outcomes[<<"h1", "t1">>] = 2

C19_AllSavesBounded ==
    (cfg.storage /\ cfg.retain # NoRetain) => Cardinality(BlockDirs) <= cfg.retain

\* elements of the retention deque
RetainedSet == {retained[i] : i \in 1..Len(retained)}

\* C20: a step deletes a block directory only by saving the data of a hash
\* that is not retained while the deque is full, and then deletes exactly
\* the directory of the oldest retained hash and leaves the saved hash's
\* directory in place.
C20_FifoEviction ==
    [][(BlockDirs \ BlockDirs' # {}) =>
          /\ Len(retained) = cfg.retain
          /\ BlockDirs \ BlockDirs' = {Head(retained)}
          /\ \E h \in StoreHashes \ RetainedSet :
                /\ retained' = Append(Tail(retained), h)
                /\ h \in diskEl']_vars

\* C21: for a block hash whose directory exists, a save_cl_data call changes
\* only slot and beacon_block_root of its metadata and a save_el_data call
\* changes only block_number and gas_used; every other field keeps the value
\* it had, so the metadata holds what both operations wrote.
C21_MetadataAdditive ==
    [][\A h \in StoreHashes :
          h \in BlockDirs =>
             /\ StoreClData(h) =>
                   /\ meta'[h].slot = HashNo(h)
                   /\ meta'[h].beacon_block_root = HashNo(h)
                   /\ meta'[h].block_number = meta[h].block_number
                   /\ meta'[h].gas_used = meta[h].gas_used
             /\ StoreElData(h) =>
                   /\ meta'[h].block_number = HashNo(h)
                   /\ meta'[h].gas_used = HashNo(h)
                   /\ meta'[h].slot = meta[h].slot
                   /\ meta'[h].beacon_block_root = meta[h].beacon_block_root]_vars

\* C22: for all Target values a and b, a.union(b) and b.union(a) are the same
\* variant with the same set; the union with All is All; the union of
\* Specific(S1) and Specific(S2) is Specific(S1 \cup S2), which for two empty
\* sets is Specific of the empty set and contains no client.
C22_UnionLaws ==
    tu.pc = "done" =>
       /\ tu.ab.all = tu.ba.all
       /\ tu.ab.set = tu.ba.set
       /\ (tu.a.all \/ tu.b.all) => (tu.ab.all /\ \A c \in Clients : contains(tu.ab, c))
       /\ (~tu.a.all /\ ~tu.b.all) =>
             /\ ~tu.ab.all
             /\ tu.ab.set = tu.a.set \cup tu.b.set
             /\ \A c \in Clients :
                   contains(tu.ab, c) <=> (c \in tu.a.set \/ c \in tu.b.set)

\* C22 witness: the union of two empty Specific targets was evaluated and is
\* the empty Specific target.
C22_Witness ==
    /\ tu.pc = "done"
    /\ ~tu.a.all /\ tu.a.set = {}
    /\ ~tu.b.all /\ tu.b.set = {}
    /\ ~tu.ab.all /\ tu.ab.set = {}

\* the messages of this tick that name client c
BackfillOut(c) == SelectSeq(bf.out, LAMBDA m : c \in m.tc.set)

\* C23: within one tick a RequestProof names a client only if the status of
\* the tick put that client more than 5 slots behind; every message has
\* target_clients = Specific of one client and target_proof_types = All; the
\* messages for a client are at most min(source_head - zkvm_head, 20), for
\* pairwise different slots with an execution payload in
\* (zkvm_head, zkvm_head + min(source_head - zkvm_head, 20)].
C23_BackfillBounded ==
    /\ \A i \in 1..Len(bf.out) :
          /\ ~bf.out[i].tc.all
          /\ Cardinality(bf.out[i].tc.set) = 1
          /\ bf.out[i].tpt = All
    /\ \A c \in Clients :
          LET msgs == BackfillOut(c)
              gap == bf.source_head[c] - bf.zkvm_head[c]
              n == IF gap < 20 THEN gap ELSE 20
          IN msgs # <<>> =>
               /\ bf.source # HeadErr /\ bf.heads[c] # HeadErr
               /\ bf.heads[c] - bf.source < 0 - 5
               /\ bf.zkvm_head[c] # HeadErr /\ gap > 0
               /\ Len(msgs) <= n
               /\ \A i \in 1..Len(msgs) :
                     /\ msgs[i].slot > bf.zkvm_head[c]
                     /\ msgs[i].slot <= bf.zkvm_head[c] + n
                     /\ HasPayload(msgs[i].slot, bf.pattern)
                     /\ \A j \in 1..Len(msgs) : msgs[j].slot = msgs[i].slot => j = i

\* C23 witness: source head 120, zk-CL head 110 for c1, c2 in sync, every
\* slot with a payload: the tick is over and sent the ten requests for the
\* slots 111..120, all for c1.
C23_Witness ==
    /\ bf.pc = "status" /\ bf.todo = <<>>
    /\ bf.source = 120 /\ bf.heads["c1"] = 110 /\ bf.heads["c2"] = 125
    /\ bf.zkvm_head["c1"] = 110 /\ bf.source_head["c1"] = 120
    /\ Len(bf.out) = 10
    /\ \A i \in 1..10 : bf.out[i].slot = 110 + i /\ bf.out[i].tc = Specific({"c1"})

\* task p is at a lock().await of mutex l, which another task or p itself holds
LockWaits(p, l) ==
    /\ lk.path[p] # "none"
    /\ NextOp(p).op = "acq" /\ NextOp(p).lock = l
    /\ Holder(l) # "free"

\* C24: a task that takes pending_proofs never holds proof_gen_ids at that
\* moment, so the two are only ever held together in the order
\* pending_proofs, proof_gen_ids; and no state is reached in which a task
\* waits for a mutex it holds itself or two tasks wait for mutexes the other
\* holds.
C24_LockOrder ==
    /\ [][\A p \in LockProcs :
            (pp_lock' = p /\ pp_lock # p) => gi_lock # p]_vars
    /\ [](\A p \in LockProcs, l \in {"pending_proofs", "proof_gen_ids", "pending_requests"} :
            LockWaits(p, l) =>
               /\ Holder(l) # p
               /\ \A m \in {"pending_proofs", "proof_gen_ids", "pending_requests"} :
                     ~(LockWaits(Holder(l), m) /\ Holder(m) = p))

\* C24 witness: request_proof holds both guards over the POST /prove while a
\* webhook handler waits for proof_gen_ids and another for pending_proofs.
C24_Witness ==
    /\ pp_lock = "run" /\ gi_lock = "run"
    /\ lk.path["run"] = "request_proof" /\ NextOp("run").op = "await"
    /\ LockWaits("wh1", "proof_gen_ids")
    /\ LockWaits("wh2", "pending_proofs")

\* C25: no task is at the await of a channel send while it holds the
\* el_data_cache guard: a fetch task that has put its block into the LRU has
\* released the mutex before it sends BlockDataReady.
C25_CacheGuardNotHeldOverSend ==
    el_lock = "fetch" =>
       /\ ft.pc # "send"
       /\ \A h \in Hashes : Tasks(h, "sending") = 0

\* the loops around the ProofService channel have returned
AllExited == ps.pc = "exited" /\ eld.pc = "exited" /\ sd.cl = "exited"

\* C26: once the token is cancelled ProofService, ElDataService and
\* ClEventService eventually exit; after the cancellation no loop takes a
\* message, a task result or a tick at its select, and an ElDataService that
\* has exited leaves no fetch task behind.
C26_ShutdownExits ==
    /\ sd.cancelled ~> AllExited
    /\ [][sd.cancelled =>
            /\ ps.pc = "idle" => ps'.pc \in {"idle", "exited"}
            /\ eld.pc = "idle" => eld'.pc \in {"idle", "exited"}
            /\ sd.cl = "stream" => sd'.cl \in {"stream", "exited"}]_vars
    /\ [](eld.pc = "exited" =>
            \A h \in Hashes : Tasks(h, "running") = 0 /\ Tasks(h, "sending") = 0)

\* C27: request_proof always finds the block in the EL-data LRU: no item of
\* a RequestProof or BlockDataReady ends with the block data missing.
C27_RequestProofFindsData == "nodata" \notin ps.out

\* the POST /prove of request_proof returns an error
PostFails == ps.pc = "http" /\ ps'.pc = "item_done" /\ nextGen' = nextGen

\* C28: when the POST /prove fails, pending_proofs and proof_gen_ids are
\* what request_proof found when it took the locks, and both locks are free.
C28_FailedPostLeavesMaps ==
    [][PostFails =>
         /\ pending_proofs' = pending_proofs
         /\ proof_gen_ids' = ps.ids
         /\ pp_lock' = "free" /\ gi_lock' = "free"]_vars

\* a step of cleanup_stale_entries: the loop is at its select and stays
\* there, no message, webhook or clock step
CleanupStep ==
    /\ ps.pc = "idle" /\ ps' = ps
    /\ proof_rx' = proof_rx /\ wh' = wh /\ now' = now /\ sent' = sent

\* C29: after cleanup_stale_entries no PendingRequest and no PendingProof of
\* age >= PENDING_REQUEST_TIMEOUT remains and no block hash of
\* pending_requests has an empty map; the proof_gen_ids entry of every removed
\* PendingProof is gone; every younger PendingRequest and PendingProof and
\* every proof_gen_ids entry that is not the one of a removed PendingProof is
\* unchanged.
C29_CleanupRemovesStale ==
    [][CleanupStep =>
         /\ \A h \in DOMAIN pending_requests' :
               /\ DOMAIN pending_requests'[h] # {}
               /\ \A t \in DOMAIN pending_requests'[h] :
                     now - pending_requests'[h][t].created_at < PENDING_REQUEST_TIMEOUT
         /\ \A k \in DOMAIN pending_proofs' :
               now - pending_proofs'[k].created_at < PENDING_REQUEST_TIMEOUT
         /\ \A k \in (DOMAIN pending_proofs) \ DOMAIN pending_proofs' :
               pending_proofs[k].proof_gen_id \notin DOMAIN proof_gen_ids'
         /\ \A h \in DOMAIN pending_requests : \A t \in DOMAIN pending_requests[h] :
               now - pending_requests[h][t].created_at < PENDING_REQUEST_TIMEOUT =>
                  /\ h \in DOMAIN pending_requests'
                  /\ t \in DOMAIN pending_requests'[h]
                  /\ pending_requests'[h][t] = pending_requests[h][t]
         /\ \A k \in DOMAIN pending_proofs :
               now - pending_proofs[k].created_at < PENDING_REQUEST_TIMEOUT =>
                  k \in DOMAIN pending_proofs' /\ pending_proofs'[k] = pending_proofs[k]
         /\ \A g \in DOMAIN proof_gen_ids :
               (\A k \in (DOMAIN pending_proofs) \ DOMAIN pending_proofs' :
                    pending_proofs[k].proof_gen_id # g) =>
                  g \in DOMAIN proof_gen_ids' /\ proof_gen_ids'[g] = proof_gen_ids[g]
         /\ DOMAIN pending_requests' \subseteq DOMAIN pending_requests
         /\ DOMAIN pending_proofs' \subseteq DOMAIN pending_proofs
         /\ DOMAIN proof_gen_ids' \subseteq DOMAIN proof_gen_ids]_vars

\* C29 witness: the PendingProof of (h1, t1), submitted at time 0 and never
\* answered by a webhook, is gone with its proof_gen_ids entry at time 600,
\* while the PendingRequest of h2 created at 300 is still there.
C29_Witness ==
    /\ now = PENDING_REQUEST_TIMEOUT
    /\ nextGen = 2 /\ lastPost[<<"h1", "t1">>] = 0 /\ delivered = 0
    /\ pending_proofs = EmptyMap /\ proof_gen_ids = EmptyMap
    /\ "h2" \in DOMAIN pending_requests
    /\ pending_requests["h2"]["t1"].created_at = 300

\* the ProofService loop takes BlockDataReady{h} from its channel
BlockDataReadyStep(h) ==
    /\ ps.pc = "idle" /\ proof_rx # <<>>
    /\ Head(proof_rx) = BlockDataReady(h)
    /\ proof_rx' = Tail(proof_rx)

\* C30: taking BlockDataReady{h} removes the entry of h from pending_requests
\* and leaves the other hashes' entries as they are; until the handler
\* returns pending_requests does not change again, so nothing is inserted and
\* h has no entry; with nothing pending for h the step changes nothing but
\* the channel, and the loop stays at its select (no engine request, no
\* submission).
C30_BlockDataReadyDrains ==
    /\ [][\A h \in Hashes : BlockDataReadyStep(h) =>
            /\ h \notin DOMAIN pending_requests'
            /\ DOMAIN pending_requests' = (DOMAIN pending_requests) \ {h}
            /\ \A x \in DOMAIN pending_requests' :
                  pending_requests'[x] = pending_requests[x]
            /\ h \in DOMAIN pending_requests => ps'.reqs = pending_requests[h]
            /\ h \notin DOMAIN pending_requests =>
                  UNCHANGED <<envVars, now, cfg, calcVars, taskVars, proof_cache,
                              storeVars, elVars, pending_requests, proofMaps, ps,
                              whVars, nextGen, histVars>>]_vars
    /\ [][ps.from = "bdr" => pending_requests' = pending_requests]_vars
    /\ [](ps.from = "bdr" => ps.h \notin DOMAIN pending_requests)

\* C30 witness: the handler of BlockDataReady{h} has sent the POST /prove of
\* a PendingRequest it took, and another hash still has its PendingRequest.
C30_Witness ==
    /\ ps.from = "bdr" /\ ps.pc = "item_done" /\ "post" \in ps.out
    /\ pending_requests # EmptyMap

\* C31: a RequestProof merged into an existing PendingRequest changes
\* target_clients to the union and nothing else: slot, block_root and
\* created_at are those of the first request, so the entry is stale for
\* cleanup exactly when it was before the merge.
C31_MergeKeepsFirstRequest ==
    (pq.pc = "done" /\ pq.existing # NoRequest) =>
       /\ pq.result.slot = pq.existing.slot
       /\ pq.result.block_root = pq.existing.block_root
       /\ pq.result.created_at = pq.existing.created_at
       /\ pq.result.target_clients.all
             = (pq.existing.target_clients.all \/ pq.req.target_clients.all)
       /\ \A c \in Clients :
             contains(pq.result.target_clients, c)
               <=> (\/ contains(pq.existing.target_clients, c)
                    \/ contains(pq.req.target_clients, c))
       /\ DOMAIN pq.result = DOMAIN pq.existing
       /\ (elapsed(pq.result.created_at) >= PENDING_REQUEST_TIMEOUT)
             <=> (elapsed(pq.existing.created_at) >= PENDING_REQUEST_TIMEOUT)

\* C31 witness: a request for c2 with another slot and block_root, handled
\* 300 s after the first request for c1, was merged into its PendingRequest.
C31_Witness ==
    /\ pq.pc = "done"
    /\ pq.existing = [slot |-> 1, block_root |-> 1,
                       target_clients |-> Specific({"c1"}), created_at |-> 0]
    /\ pq.req = [slot |-> 2, block_root |-> 2, target_clients |-> Specific({"c2"})]
    /\ now = TimeStep
    /\ pq.result.target_clients = Specific({"c1", "c2"})

\* the ClEventService loop has moved
ClLoopStep == <<sd.cl, sd.clr, sd.cld>>' # <<sd.cl, sd.clr, sd.cld>>

\* C32: ClEventService leaves its stream for the reconnect delay only when
\* the stream ends or gives an error holding ConnectionRefused, and reads the
\* same stream on after any other error; it subscribes again only out of a
\* delay that has run its 5 s, and connects only through that subscription;
\* after a cancellation it never connects again, and one that arrives during
\* the delay ends the service.
C32_ClReconnect ==
    /\ [][(ClLoopStep /\ sd.cl = "stream" /\ sd'.cl # "exited") =>
            /\ sd'.cl \in {"stream", "delay"}
            /\ sd'.cl = "delay" <=> sd'.clr \in {"refused", "none"}
            /\ sd'.clr \in {"parse", "sse"} => sd'.cl = "stream"]_vars
    /\ [][(sd.cl # "subscribed" /\ sd'.cl = "subscribed") =>
            sd.cl = "delay" /\ sd.cld = CL_RECONNECT_DELAY]_vars
    /\ [][(sd.cl \notin {"stream", "send"} /\ sd'.cl = "stream") =>
            sd.cl = "subscribed" /\ ~sd.cancelled]_vars
    /\ (sd.cancelled /\ sd.cl = "delay") ~> sd.cl = "exited"

\* a ConnectionRefused took the service to the delay, and the cancellation
\* ended it before the sleep had run
C32_Witness == sd.cl = "exited" /\ sd.clr = "refused" /\ sd.cld = 0

\* the ElEventService loop has moved
ElLoopStep == <<sd.el, sd.elr, sd.els>>' # <<sd.el, sd.elr, sd.els>>

\* C33: a stream error makes ElEventService leave its stream and subscribe
\* again, and every subscription after a stream error or a stream end comes
\* out of a delay that has run at least 2 s.
C33_ElReconnectDelayed ==
    /\ [][(ElLoopStep /\ sd.el = "stream" /\ sd'.elr = "error") =>
            sd'.el # "stream"]_vars
    /\ [][(sd.el # "subscribe" /\ sd'.el = "subscribe") =>
            sd.el = "delay" /\ sd.els >= EL_RECONNECT_DELAY]_vars


\* ProofService is inside a handler at a call that locks el_data_cache
NeedsElLock == ps.pc \in {"el_avail", "peek"}

\* a fetch task waits in send_block_data_ready for room in the channel
SendBlocked == ~HasRoom /\ \E h \in Hashes : Tasks(h, "sending") > 0

\* C34: there is no circular wait between a fetch task that waits for room in
\* the full ProofService channel and a ProofService that waits for the
\* el_data_cache mutex before it can receive again, and every BlockDataReady
\* send that has started completes.
C34_NoCircularWait ==
    /\ [](~(SendBlocked /\ el_lock = "fetch" /\ NeedsElLock))
    /\ \A h \in Hashes : (Tasks(h, "sending") > 0) ~> (Tasks(h, "sending") = 0)


\* post_webhook has returned
PostOver == pw.pc \in {"returned", "gave up"}

\* C38: post_webhook makes at most 3 attempts, makes no attempt after a 2xx
\* or a 4xx response, makes another one after any other response or a
\* transport error while fewer than 3 were made, sleeps 1 s and then 2 s
\* between the attempts, and returns in the end.
C38_PostWebhookRetries ==
    /\ [](Len(pw.replies) <= 3)
    /\ [](\A i \in 1..Len(pw.replies) :
            LET reply == pw.replies[i]
                final == reply # TransportErr /\ reply >= 200 /\ reply < 500
                                              /\ ~(reply >= 300 /\ reply < 400)
            IN  /\ (final /\ pw.pc # "none") => (i = Len(pw.replies) /\ pw.pc = "returned")
                /\ (~final /\ PostOver) => (i < Len(pw.replies) \/ i = 3))
    /\ [](pw.pc \in {"post", "returned", "gave up"} =>
            pw.slept = SubSeq(<<1, 2>>, 1, Len(pw.slept)))
    /\ [](pw.pc = "post" => Len(pw.slept) = Len(pw.replies))
    /\ [](PostOver => Len(pw.slept) = Len(pw.replies) - 1)
    /\ <>PostOver

\* a 500 and a transport error were retried after 1 s and 2 s, and the 400
\* of the third attempt ended the call
C38_Witness ==
    /\ pw.pc = "returned"
    /\ pw.replies = <<500, TransportErr, 400>>
    /\ pw.slept = <<1, 2>>


\* request_proof ends at its in-flight test: the PendingProof of the key is
\* fresh and the call returns
SkipStep == ps.pc = "locks" /\ in_flight_fresh(CurKey) /\ ps' # ps

\* proof_webhook stores the proof of handler w and spawns the submissions
SubmitStep(w) == wh[w].pc = "store" /\ wh'[w].pc = "idle"

\* C35: the clients of every RequestProof that request_proof handles get the
\* proof a later webhook delivers: a request that is skipped because a
\* PendingProof is in flight leaves a PendingProof that names its clients,
\* and the webhook submits to every client its PendingProof names.
C35_SkippedRequestServed ==
    /\ [][SkipStep =>
            \A c \in Clients :
               contains(CurTc, c) =>
                  contains(pending_proofs'[CurKey].target_clients, c)]_vars
    /\ [][\A w \in 1..NumWebhooks :
            SubmitStep(w) =>
               \A c \in Clients :
                  contains(wh[w].tc, c) => submitted'[wh[w].g][c] > 0]_vars


\* proof_webhook of handler w removes a PendingProof from pending_proofs
TakePendingStep(w) ==
    /\ wh[w].pc = "remove_pending"
    /\ wh'[w].pc # "remove_pending"
    /\ wh[w].key \in DOMAIN pending_proofs

\* C36: the PendingProof that proof_webhook removes and acts on carries the
\* proof_gen_id of the webhook, whatever request_proof and
\* cleanup_stale_entries did between the removal from proof_gen_ids and the
\* removal from pending_proofs.
C36_WebhookTakesOwnJob ==
    [][\A w \in 1..NumWebhooks :
         TakePendingStep(w) =>
            /\ pending_proofs[wh[w].key].proof_gen_id = wh[w].g
            /\ wh[w].key \notin DOMAIN pending_proofs']_vars


\* handle_fetch_data ends at "Block fetch already in flight, skipping" for h
\* (for the first time)
FetchSkipStep(h) == FetchCheckStep /\ h \notin fetch_skipped /\ h \in fetch_skipped'

\* no fetch task of h is running: none fetches, none waits in its send
NoTaskRunning(h) == Tasks(h, "running") = 0 /\ Tasks(h, "sending") = 0

\* C37: a FetchData{h} handled while the data of h is unavailable and no
\* fetch task of h is running spawns a fetch task, also when a task of h has
\* ended and its completion was not yet taken from the JoinSet: the handler
\* ends without a spawn only for available data or next to a running task.
C37_FetchSpawnedWhenNoneRuns ==
    [][\A h \in Hashes :
         /\ FetchSkipStep(h) => ~NoTaskRunning(h)
         /\ (FetchCheckStep /\ h \notin in_flight /\ h \in in_flight') =>
               fetch_tasks'[h]["running"] = fetch_tasks[h]["running"] + 1]_vars


====
